---- MODULE Spec2Model ----
(***************************************************************************)
(* Subagent targeting and lifecycle coordination                           *)
(* (src/src/auto-reply/reply/commands-subagents.ts).                       *)
(*                                                                         *)
(* Strings are sequences of one-character strings, so that trim,           *)
(* toLowerCase, startsWith, includes and parseInt are computed the way the *)
(* code computes them.  Times are epoch milliseconds.                      *)
(***************************************************************************)
EXTENDS Integers, Sequences, FiniteSets, TLC

(***************************************************************************)
(* Bounds of the model.                                                    *)
(***************************************************************************)
\* The longest run list given to the resolver.
MaxRuns == 3

\* The number of child runs of the requester in the command handler's registry.
MaxChildren == 2

\* How many times a session's token usage is rewritten by its own run.
MaxUsage == 1

(***************************************************************************)
(* Program constants.                                                      *)
(***************************************************************************)
RECENT_WINDOW_MINUTES == 30
MS_PER_MINUTE == 60000

(***************************************************************************)
(* Characters and strings.                                                 *)
(***************************************************************************)
Digits == <<"0", "1", "2", "3", "4", "5", "6", "7", "8", "9">>

IsDigit(c) == \E i \in 1..Len(Digits) : Digits[i] = c

DigitVal(c) == (CHOOSE i \in 1..Len(Digits) : Digits[i] = c) - 1

IsSpace(c) == c \in {" ", "\t", "\n"}

\* String.prototype.toLowerCase on the letters the model's strings use.
LowerChar(c) ==
  CASE c = "S" -> "s"
    [] c = "C" -> "c"
    [] c = "L" -> "l"
    [] c = "A" -> "a"
    [] c = "T" -> "t"
    [] OTHER -> c

toLowerCase(s) == [i \in 1..Len(s) |-> LowerChar(s[i])]

RECURSIVE trimStart(_)
trimStart(s) ==
  IF s # <<>> /\ IsSpace(Head(s)) THEN trimStart(Tail(s)) ELSE s

RECURSIVE trimEnd(_)
trimEnd(s) ==
  IF s # <<>> /\ IsSpace(s[Len(s)]) THEN trimEnd(SubSeq(s, 1, Len(s) - 1)) ELSE s

\* String.prototype.trim
trim(s) == trimEnd(trimStart(s))

\* String.prototype.startsWith
startsWith(s, p) == Len(p) <= Len(s) /\ SubSeq(s, 1, Len(p)) = p

\* String.prototype.includes for a one-character needle
includes(s, c) == \E i \in 1..Len(s) : s[i] = c

\* String.prototype.slice(n): the string without its first n characters
sliceFrom(s, n) == SubSeq(s, n + 1, Len(s))

\* String.prototype.slice(0, n): the first n characters, fewer if s is shorter
sliceTo(s, n) == SubSeq(s, 1, IF Len(s) < n THEN Len(s) ELSE n)

\* The length of the first white-space-free stretch of s.
RECURSIVE wordLength(_)
wordLength(s) ==
  IF s = <<>> \/ IsSpace(Head(s)) THEN 0 ELSE 1 + wordLength(Tail(s))

\* s.split(/\s+/).filter(Boolean): the white-space-delimited words of s
RECURSIVE splitWords(_)
splitWords(s) ==
  IF s = <<>> THEN <<>>
  ELSE IF IsSpace(Head(s)) THEN splitWords(Tail(s))
  ELSE <<sliceTo(s, wordLength(s))>> \o splitWords(sliceFrom(s, wordLength(s)))

\* tokens.join(" ")
RECURSIVE joinWords(_)
joinWords(tokens) ==
  IF tokens = <<>> THEN <<>>
  ELSE IF Len(tokens) = 1 THEN tokens[1]
  ELSE tokens[1] \o <<" ">> \o joinWords(Tail(tokens))

\* /^\d+$/.test(s)
AllDigits(s) == s # <<>> /\ \A i \in 1..Len(s) : IsDigit(s[i])

\* Number.parseInt(s, 10) of an all-digit string
RECURSIVE parseInt(_)
parseInt(s) ==
  IF s = <<>> THEN 0
  ELSE 10 * parseInt(SubSeq(s, 1, Len(s) - 1)) + DigitVal(s[Len(s)])

\* The decimal rendering of a natural number (template literal `${index}`)
RECURSIVE numberToString(_)
numberToString(n) ==
  IF n < 10 THEN <<Digits[n + 1]>>
  ELSE numberToString(n \div 10) \o <<Digits[(n % 10) + 1]>>

(***************************************************************************)
(* Optional values (a field that may be undefined) are sequences of length *)
(* at most one.                                                            *)
(***************************************************************************)
None == <<>>

Some(x) == <<x>>

(***************************************************************************)
(* Run records (SubagentRunRecord).  endedAt = 0 stands for a record       *)
(* without endedAt: the code reads the field only through !entry.endedAt   *)
(* and (entry.endedAt ?? 0), which do not tell the two apart.              *)
(***************************************************************************)
\* entry.startedAt ?? entry.createdAt
effectiveStart(entry) ==
  IF entry.startedAt # None THEN entry.startedAt[1] ELSE entry.createdAt

\* !entry.endedAt
isActive(entry) == entry.endedAt = 0

\* The display label of a run.
formatRunLabel(entry) == entry.label

\* The order of sortSubagentRuns: active runs first, then the most recent
\* effective start time first.
sortsBefore(a, b) ==
  \/ isActive(a) /\ ~isActive(b)
  \/ isActive(a) = isActive(b) /\ effectiveStart(a) > effectiveStart(b)

\* Stable insertion of e into an already sorted list: e goes after every
\* element that does not sort strictly after it.
RECURSIVE insertSorted(_, _)
insertSorted(sorted, e) ==
  IF sorted = <<>> THEN <<e>>
  ELSE IF sortsBefore(e, Head(sorted)) THEN <<e>> \o sorted
  ELSE <<Head(sorted)>> \o insertSorted(Tail(sorted), e)

RECURSIVE sortFrom(_, _)
sortFrom(acc, rest) ==
  IF rest = <<>> THEN acc ELSE sortFrom(insertSorted(acc, Head(rest)), Tail(rest))

\* sortSubagentRuns(runs): a sorted copy, stable on ties.
sortSubagentRuns(runs) == sortFrom(<<>>, runs)

(***************************************************************************)
(* resolveSubagentTarget                                                   *)
(***************************************************************************)
\* A resolution { entry?, error? }; an error is the message and the token
\* interpolated into it.
Resolved(entry) == [entry |-> Some(entry), error |-> None]

Failed(msg, trimmed) == [entry |-> None, error |-> Some(<<msg, trimmed>>)]

\* { entry: sorted[0] }: an index past the end of an array reads undefined.
ElementOrUndefined(seq, i) ==
  [entry |-> IF i \in 1..Len(seq) THEN Some(seq[i]) ELSE None, error |-> None]

\* now - RECENT_WINDOW_MINUTES * 60_000
recentCutoff(now) == now - RECENT_WINDOW_MINUTES * MS_PER_MINUTE

\* !!entry.endedAt && (entry.endedAt ?? 0) >= recentCutoff
isRecent(entry, cutoff) == entry.endedAt # 0 /\ entry.endedAt >= cutoff

\* Mutant of resolveLast: the snapshot is not sorted.
resolveLastUnsorted(runs) == ElementOrUndefined(runs, 1)

\* trimmed === "last"
resolveLast(runs) == ElementOrUndefined(sortSubagentRuns(runs), 1)

\* Mutant of numericOrder: a run ended exactly at the cutoff is left out.
numericOrderStrictCutoff(runs, now) ==
  LET sorted == sortSubagentRuns(runs)
      KeepActive(entry) == isActive(entry)
      KeepRecent(entry) == entry.endedAt # 0 /\ entry.endedAt > recentCutoff(now)
  IN  SelectSeq(sorted, KeepActive) \o SelectSeq(sorted, KeepRecent)

\* The numeric ordering of the resolver: active runs, then recently ended.
numericOrder(runs, now) ==
  LET sorted == sortSubagentRuns(runs)
      KeepActive(entry) == isActive(entry)
      KeepRecent(entry) == isRecent(entry, recentCutoff(now))
  IN  SelectSeq(sorted, KeepActive) \o SelectSeq(sorted, KeepRecent)

\* Mutant of resolveByIndex: index 0 passes the range check.
resolveByIndexZeroAllowed(runs, trimmed, now) ==
  LET idx == parseInt(trimmed)
      order == numericOrder(runs, now)
  IN  IF idx < 0 \/ idx > Len(order)
        THEN Failed("Invalid subagent index: ", trimmed)
        ELSE ElementOrUndefined(order, idx)

\* /^\d+$/.test(trimmed)
resolveByIndex(runs, trimmed, now) ==
  LET idx == parseInt(trimmed)
      order == numericOrder(runs, now)
  IN  IF idx <= 0 \/ idx > Len(order)
        THEN Failed("Invalid subagent index: ", trimmed)
        ELSE ElementOrUndefined(order, idx)

\* Mutant of resolveBySessionKey: the key is matched by prefix.
resolveBySessionKeyPrefix(runs, trimmed) ==
  LET HasKey(entry) == startsWith(entry.childSessionKey, trimmed)
      match == SelectSeq(runs, HasKey)
  IN  IF match # <<>> THEN Resolved(Head(match))
      ELSE Failed("Unknown subagent session: ", trimmed)

\* runs.find((entry) => entry.childSessionKey === trimmed)
resolveBySessionKey(runs, trimmed) ==
  LET HasKey(entry) == entry.childSessionKey = trimmed
      match == SelectSeq(runs, HasKey)
  IN  IF match # <<>> THEN Resolved(Head(match))
      ELSE Failed("Unknown subagent session: ", trimmed)

\* Mutant of byLabel: the label is compared without lowering its case.
byLabelCaseSensitive(runs, lowered) ==
  LET Same(entry) == formatRunLabel(entry) = lowered
  IN  SelectSeq(runs, Same)

byLabel(runs, lowered) ==
  LET Same(entry) == toLowerCase(formatRunLabel(entry)) = lowered
  IN  SelectSeq(runs, Same)

byLabelPrefix(runs, lowered) ==
  LET Starts(entry) == startsWith(toLowerCase(formatRunLabel(entry)), lowered)
  IN  SelectSeq(runs, Starts)

byRunId(runs, trimmed) ==
  LET Starts(entry) == startsWith(entry.runId, trimmed)
  IN  SelectSeq(runs, Starts)

\* Mutant of matchRule: the first of several candidates is picked.
matchRuleFirst(candidates, ambiguous, trimmed, otherwise) ==
  IF Len(candidates) >= 1 THEN Resolved(candidates[1]) ELSE otherwise

\* One rule of the chain: a single candidate resolves, several are an
\* ambiguity error, none falls through to the next rule.
matchRule(candidates, ambiguous, trimmed, otherwise) ==
  IF Len(candidates) = 1 THEN Resolved(candidates[1])
  ELSE IF Len(candidates) > 1 THEN Failed(ambiguous, trimmed)
  ELSE otherwise

resolveByName(runs, trimmed) ==
  LET lowered == toLowerCase(trimmed)
  IN  matchRule(byLabel(runs, lowered), "Ambiguous subagent label: ", trimmed,
        matchRule(byLabelPrefix(runs, lowered), "Ambiguous subagent label prefix: ", trimmed,
          matchRule(byRunId(runs, trimmed), "Ambiguous run id prefix: ", trimmed,
            Failed("Unknown subagent id: ", trimmed))))

resolveSubagentTarget(runs, token, now) ==
  LET trimmed == trim(token)
  IN  IF trimmed = <<>> THEN [entry |-> None, error |-> Some(<<"Missing subagent id.", <<>>>>)]
      ELSE IF trimmed = <<"l", "a", "s", "t">> THEN resolveLast(runs)
      ELSE IF AllDigits(trimmed) THEN resolveByIndex(runs, trimmed, now)
      ELSE IF includes(trimmed, ":") THEN resolveBySessionKey(runs, trimmed)
      ELSE resolveByName(runs, trimmed)

(***************************************************************************)
(* The numbering of the list verb: each line with the index it prints.     *)
(***************************************************************************)
listLines(runs, now) ==
  LET sorted == sortSubagentRuns(runs)
      KeepActive(entry) == isActive(entry)
      KeepRecent(entry) == isRecent(entry, recentCutoff(now))
      active == SelectSeq(sorted, KeepActive)
      recent == SelectSeq(sorted, KeepRecent)
      activeLines == [i \in 1..Len(active) |-> [index |-> i, run |-> active[i]]]
      recentLines ==
        [j \in 1..Len(recent) |-> [index |-> Len(active) + j, run |-> recent[j]]]
  IN  activeLines \o recentLines

(***************************************************************************)
(* The config builder (src/apps/config-builder/src/ui/app.ts) and its      *)
(* field editors (src/unnamed/part_000).  A number is held in tenths, so   *)
(* that 1.5 and Math.trunc are computed as the code computes them; a JSON  *)
(* value is a number or an array of numbers.  Times are milliseconds.      *)
(***************************************************************************)
\* WIZARD_STEPS.length
WIZARD_STEPS_LENGTH == 7

\* The delay of the timer that resets the copy button.
COPY_RESET_MS == 1500

\* ConfigBuilderMode
Modes == {"landing", "explorer", "wizard"}

\* The values window.location.hash takes: empty, the three routes, another.
Hashes == {"", "#/", "#/explorer", "#/wizard", "#/docs"}

\* parseModeFromHash(hash): the mode of a route, landing for any other hash.
parseModeFromHash(hash) ==
  CASE hash = "#/explorer" -> "explorer"
    [] hash = "#/wizard" -> "wizard"
    [] OTHER -> "landing"

\* modeToHash(mode)
modeToHash(mode) ==
  CASE mode = "explorer" -> "#/explorer"
    [] mode = "wizard" -> "#/wizard"
    [] OTHER -> "#/"

\* The fields of the schema the editors are shown for: two scalars and an
\* array of a complex shape, edited as JSON.
Fields ==
  {[path |-> "port", kind |-> "integer"],
   [path |-> "ratio", kind |-> "number"],
   [path |-> "hooks", kind |-> "array"]}

Paths == {field.path : field \in Fields}

\* A value of the draft.
Value(type, number, flag, text, items) ==
  [type |-> type, number |-> number, flag |-> flag, text |-> text, items |-> items]

\* The outcome of a parse: the value, or the message of the Error thrown.
Parsed(value) == [ok |-> TRUE, value |-> Some(value), message |-> ""]

Thrown(message) == [ok |-> FALSE, value |-> None, message |-> message]

\* Number(raw) of a decimal numeral with at most one digit after the point,
\* in tenths; None stands for NaN.  White space around it is ignored and
\* the empty string is 0.
NumberOf(raw) ==
  LET s == trim(raw)
  IN  IF s = <<>> THEN Some(0)
      ELSE IF AllDigits(s) THEN Some(10 * parseInt(s))
      ELSE IF /\ Len(s) >= 3
              /\ s[Len(s) - 1] = "."
              /\ AllDigits(sliceTo(s, Len(s) - 2))
              /\ IsDigit(s[Len(s)])
        THEN Some(10 * parseInt(sliceTo(s, Len(s) - 2)) + DigitVal(s[Len(s)]))
      ELSE None

\* parseScalar(kind, raw)
parseScalar(kind, raw) ==
  IF kind = "number"
    THEN IF NumberOf(raw) = None THEN Thrown("Enter a valid number.")
         ELSE Parsed(Value("number", NumberOf(raw)[1], FALSE, <<>>, <<>>))
  ELSE IF kind = "integer"
    THEN IF NumberOf(raw) = None THEN Thrown("Enter a valid integer.")
         ELSE Parsed(Value("number", NumberOf(raw)[1] - (NumberOf(raw)[1] % 10),
                           FALSE, <<>>, <<>>))
  ELSE IF kind = "boolean"
    THEN IF raw = <<"t", "r", "u", "e">> THEN Parsed(Value("boolean", 0, TRUE, <<>>, <<>>))
         ELSE IF raw = <<"f", "a", "l", "s", "e">>
           THEN Parsed(Value("boolean", 0, FALSE, <<>>, <<>>))
         ELSE Thrown("Use true or false.")
  ELSE Parsed(Value("string", 0, FALSE, raw, <<>>))

\* JSON.parse(raw) of a numeral, of [] and of an array of one numeral; any
\* other text is a SyntaxError.
JSONparse(raw) ==
  IF raw # <<>> /\ NumberOf(raw) # None /\ trim(raw) = raw
    THEN Parsed(Value("number", NumberOf(raw)[1], FALSE, <<>>, <<>>))
  ELSE IF raw = <<"[", "]">> THEN Parsed(Value("array", 0, FALSE, <<>>, <<>>))
  ELSE IF /\ Len(raw) >= 3
          /\ raw[1] = "["
          /\ raw[Len(raw)] = "]"
          /\ AllDigits(SubSeq(raw, 2, Len(raw) - 1))
    THEN Parsed(Value("array", 0, FALSE, <<>>,
                      <<10 * parseInt(SubSeq(raw, 2, Len(raw) - 1))>>))
  ELSE Thrown("Invalid JSON value.")

\* resetDraft(): the draft without any value.
resetDraft == [path \in Paths |-> None]

\* setFieldValue(draft, path, value)
setFieldValue(draft, path, value) == [draft EXCEPT ![path] = Some(value)]

\* clearFieldValue(draft, path)
clearFieldValue(draft, path) == [draft EXCEPT ![path] = None]

\* validateConfigDraft(draft): an issue for every path whose value is not
\* of the type of its field.
validateConfigDraft(draft) ==
  [issues |->
     {field.path : field \in
        {f \in Fields :
           /\ draft[f.path] # None
           /\ draft[f.path][1].type #
                (IF f.kind \in {"number", "integer"} THEN "number" ELSE f.kind)}}]

\* The element as its field initialisers leave it, in a window whose hash
\* and stored draft are these:
\*   hashchange  a hashchange event is queued
\*   timers      the timers set and not yet fired or cleared: id, time left
\*   writes      the clipboard writes not yet settled
\*   persisted   the draft in the window's storage
\*   connected   the element is in the document
\*   sinceCopy   the time since the last clipboard write settled, -1 if none
\*   input       the last input event of a field editor
Constructed(hash, persisted) ==
  [mode |-> "landing", config |-> resetDraft,
   validation |-> validateConfigDraft(resetDraft),
   fieldErrors |-> [path \in Paths |-> None],
   wizardStepIndex |-> 0, copyState |-> "idle", copyResetTimer |-> None,
   hash |-> hash, hashchange |-> FALSE, timers |-> {}, writes |-> 0,
   persisted |-> persisted, connected |-> FALSE, sinceCopy |-> -1, input |-> None]

\* connectedCallback(): bootstrap() reads the mode from the hash and the
\* draft from the storage; the hashchange listener is added.
connectedCallback(b) ==
  [b EXCEPT !.mode = parseModeFromHash(b.hash),
            !.config = b.persisted,
            !.validation = validateConfigDraft(b.persisted),
            !.connected = TRUE]

\* The element where no builder page is open.
NoBuilder == Constructed("", resetDraft)

(***************************************************************************)
(* State.                                                                  *)
(*   registry    the run registry's records of the requester, in the order *)
(*               listSubagentRunsForRequester returns them                 *)
(*   now         Date.now(), the instant of the invocation                 *)
(*   store       the session store: session key -> SessionEntry, if any    *)
(*   inv         the invocations of handleSubagentsCommand: where each one *)
(*               is, what it holds in its locals, the calls it has issued  *)
(*               and the result it returned                                *)
(*   steerRestart                                                          *)
(*               the run ids the registry has marked for steer-restart     *)
(*   phase, listing, token, resolution                                     *)
(*               one application of the list numbering and of the resolver *)
(*               to the registry snapshot: what list printed, the token    *)
(*               given to resolveSubagentTarget and what it returned       *)
(*   builder     the config builder element and the window it is shown in  *)
(***************************************************************************)
VARIABLES registry, now, store, inv, steerRestart, phase, listing, token, resolution,
          builder

resolverVars == <<phase, listing, token, resolution>>

handlerVars == <<store, inv, steerRestart>>

vars ==
  <<registry, now, store, inv, steerRestart, phase, listing, token, resolution, builder>>

(***************************************************************************)
(* Inputs of the resolver.                                                 *)
(***************************************************************************)
\* The instant of the invocation.
NowMs == 100 * MS_PER_MINUTE

MinutesAgo(m) == NowMs - m * MS_PER_MINUTE

\* Run ids are unique within the registry: the i-th record's run id.
RunIdAt(i) ==
  IF i % 3 = 0 THEN <<Digits[(i \div 3) + 1], "b">> ELSE <<"a", Digits[i + 1]>>

\* The session key of the i-th child.
KeyAt(i) == <<"k", ":", Digits[i + 1]>>

\* A session key shared by the records of one lineage.
SharedKey == <<"k", ":", "0">>

Labels == {<<"A">>, <<"A", "1">>, <<"A", "2">>, <<"1">>}

\* Records that differ in what the ordering reads: start, creation and end
\* times (ended exactly at the cutoff, and one minute before it).
OrderRecords(i) ==
  [runId : {RunIdAt(i)}, childSessionKey : {KeyAt(i)}, label : {<<"A">>},
   createdAt : {MinutesAgo(50)},
   startedAt : {None, Some(MinutesAgo(60)), Some(MinutesAgo(40))},
   endedAt : {0, MinutesAgo(RECENT_WINDOW_MINUTES), MinutesAgo(RECENT_WINDOW_MINUTES + 1)}]

\* Records that differ in what the matching rules read: label and session key.
MatchRecords(i) ==
  [runId : {RunIdAt(i)}, childSessionKey : {KeyAt(i), SharedKey}, label : Labels,
   createdAt : {MinutesAgo(50)}, startedAt : {None}, endedAt : {0}]

\* Records of steered lineages: several records may share one session key,
\* the superseded ones ended, here longer ago than the recent window.
LineageRecords(i) ==
  [runId : {RunIdAt(i)}, childSessionKey : {KeyAt(i), SharedKey},
   label : {<<"A">>, <<"1">>},
   createdAt : {MinutesAgo(50)}, startedAt : {None},
   endedAt : {0, MinutesAgo(RECENT_WINDOW_MINUTES + 15)}]

\* The records the i-th position of a run list of the family is drawn from.
RecordsAt(family, i) ==
  CASE family = "order" -> OrderRecords(i)
    [] family = "match" -> MatchRecords(i)
    [] family = "lineage" -> LineageRecords(i)

\* All run lists of length n of a family.
RECURSIVE RunLists(_, _)
RunLists(family, n) ==
  IF n = 0 THEN {<<>>}
  ELSE {Append(runs, entry) : runs \in RunLists(family, n - 1),
                              entry \in RecordsAt(family, n)}

ResolverInputs ==
  UNION {RunLists(family, n) : family \in {"order", "match", "lineage"}, n \in 0..MaxRuns}

Tokens ==
  {<<>>, <<" ">>, <<"l", "a", "s", "t">>, <<" ", "l", "a", "s", "t", " ">>,
   <<"0", "1">>, <<"k", ":">>, KeyAt(1), SharedKey, KeyAt(9),
   <<"a">>, <<"A", "1">>, <<"a", "2">>, <<"z">>}
  \cup {numberToString(i) : i \in 0..(MaxRuns + 1)}

NoResolution == [entry |-> None, error |-> None]

(***************************************************************************)
(* The command handler's world: invocations, sessions, the session store.  *)
(***************************************************************************)
\* One invocation of the command handler runs in each behaviour, beside the
\* runs of the requester and the session store's other writers.
Invs == {1}

\* The requester's session key (resolveRequesterSessionKey).
RequesterKey == <<"r", ":", "0">>

\* The session keys of the requester's children.
SessionKeys == {KeyAt(i) : i \in 1..MaxChildren}

\* The backend session id of the i-th child's session.
SessionIdAt(i) == <<"s", Digits[i + 1]>>

\* An invocation that has not been made yet.
IdleInvocation ==
  [pc |-> "idle", action |-> "", target |-> None, resolved |-> None,
   entry |-> None, calls |-> <<>>, result |-> None]

\* A store without entries.
EmptyStore == [key \in SessionKeys |-> None]

(***************************************************************************)
(* Applying list and the resolver to one snapshot at one instant.          *)
(***************************************************************************)
InitResolve ==
  /\ registry \in ResolverInputs
  /\ now = NowMs
  /\ store = EmptyStore
  /\ inv = [i \in Invs |-> IdleInvocation]
  /\ steerRestart = {}
  /\ phase = "start"
  /\ listing = <<>>
  /\ token = <<>>
  /\ resolution = NoResolution
  /\ builder = NoBuilder

ListRuns ==
  /\ phase = "start"
  /\ listing' = listLines(registry, now)
  /\ phase' = "listed"
  /\ UNCHANGED <<registry, now, token, resolution, handlerVars, builder>>

ResolveToken ==
  /\ phase = "listed"
  /\ \E t \in Tokens :
       /\ token' = t
       /\ resolution' = resolveSubagentTarget(registry, t, now)
  /\ phase' = "resolved"
  /\ UNCHANGED <<registry, now, listing, handlerVars, builder>>

NextResolve == ListRuns \/ ResolveToken

SpecResolve == InitResolve /\ [][NextResolve]_vars

(***************************************************************************)
(* Properties of the resolver and of the list numbering.                   *)
(***************************************************************************)
Indices == 1..Len(registry)

trimmedToken == trim(token)

IsLast(t) == t = <<"l", "a", "s", "t">>

\* The token reaches the label and run id rules.
IsNameToken(t) == t # <<>> /\ ~IsLast(t) /\ ~AllDigits(t) /\ ~includes(t, ":")

\* Ended more than RECENT_WINDOW_MINUTES ago.
IsOld(entry) ==
  entry.endedAt # 0 /\ entry.endedAt < now - RECENT_WINDOW_MINUTES * MS_PER_MINUTE

\* The position of a record in a list of records with distinct run ids.
PositionIn(seq, entry) == CHOOSE k \in 1..Len(seq) : seq[k] = entry

\* C1: for every i from 1 to the number of lines list numbers, the all-digit
\* token i resolves to exactly the run list numbered i; the lines are the
\* active runs followed by the runs ended within the last 30 minutes, each
\* group in sortSubagentRuns order and numbered 1, 2, ...; a run ended more
\* than 30 minutes ago has no line and is never returned for an all-digit
\* token.
C1_IndexMatchesList ==
  phase = "resolved" =>
    /\ \A k \in 1..Len(listing) :
         /\ listing[k].index = k
         /\ ~IsOld(listing[k].run)
         /\ trimmedToken = numberToString(k) => resolution = Resolved(listing[k].run)
    /\ \A i \in Indices :
         ~IsOld(registry[i]) <=> \E k \in 1..Len(listing) : listing[k].run = registry[i]
    /\ \A k, m \in 1..Len(listing) :
         k < m =>
           /\ isActive(listing[m].run) => isActive(listing[k].run)
           /\ isActive(listing[k].run) = isActive(listing[m].run) =>
                PositionIn(sortSubagentRuns(registry), listing[k].run)
                  < PositionIn(sortSubagentRuns(registry), listing[m].run)
    /\ AllDigits(trimmedToken) /\ resolution.entry # None =>
         /\ ~IsOld(resolution.entry[1])
         /\ \E k \in 1..Len(listing) :
              k = parseInt(trimmedToken) /\ listing[k].run = resolution.entry[1]

\* C1 witness: index 2 resolved to a recently ended run listed after an
\* active one, while the registry also holds a run that ended too long ago.
C1_Witness ==
  /\ phase = "resolved"
  /\ trimmedToken = <<"2">>
  /\ Len(listing) = 2
  /\ isActive(listing[1].run)
  /\ ~isActive(listing[2].run)
  /\ resolution = Resolved(listing[2].run)
  /\ \E i \in Indices : IsOld(registry[i])

\* C2: the resolver returns either a record of the given list or a
\* non-empty error string, never both and never neither.
C2_EntryXorError ==
  phase = "resolved" =>
    \/ /\ resolution.entry # None
       /\ \E i \in Indices : registry[i] = resolution.entry[1]
       /\ resolution.error = None
    \/ /\ resolution.entry = None
       /\ resolution.error # None
       /\ resolution.error[1][1] # ""

\* C3: on a non-empty list 'last' returns a run that is active if any run
\* is, that has the greatest effective start time of its group, and that
\* comes first in the snapshot among the runs of its group tied on that time.
C3_LastIsFirstOfOrder ==
  phase = "resolved" /\ IsLast(trimmedToken) /\ registry # <<>> =>
    \E i \in Indices :
      /\ resolution = Resolved(registry[i])
      /\ (\E j \in Indices : isActive(registry[j])) => isActive(registry[i])
      /\ \A j \in Indices :
           isActive(registry[j]) = isActive(registry[i]) =>
             \/ effectiveStart(registry[j]) < effectiveStart(registry[i])
             \/ effectiveStart(registry[j]) = effectiveStart(registry[i]) /\ i <= j

\* C3 witness: 'last' returned an active run although an ended run started
\* later, and another active run tied with the result on the start time.
C3_Witness ==
  /\ phase = "resolved"
  /\ IsLast(trimmedToken)
  /\ resolution.entry # None
  /\ isActive(resolution.entry[1])
  /\ \E j \in Indices :
       /\ ~isActive(registry[j])
       /\ effectiveStart(registry[j]) > effectiveStart(resolution.entry[1])
  /\ \E j \in Indices :
       /\ registry[j] # resolution.entry[1]
       /\ isActive(registry[j])
       /\ effectiveStart(registry[j]) = effectiveStart(resolution.entry[1])

\* The records a rule matches, as the set of their positions.
ExactLabel == {i \in Indices : toLowerCase(registry[i].label) = toLowerCase(trimmedToken)}

LabelPrefix ==
  {i \in Indices : startsWith(toLowerCase(registry[i].label), toLowerCase(trimmedToken))}

RunIdPrefix == {i \in Indices : startsWith(registry[i].runId, trimmedToken)}

\* C4: a matching rule that is reached and yields more than one candidate
\* gives the ambiguity error of that rule naming the token: no candidate is
\* picked and no later rule is tried.
C4_AmbiguityIsAnError ==
  phase = "resolved" /\ IsNameToken(trimmedToken) =>
    /\ Cardinality(ExactLabel) > 1 =>
         resolution = Failed("Ambiguous subagent label: ", trimmedToken)
    /\ ExactLabel = {} /\ Cardinality(LabelPrefix) > 1 =>
         resolution = Failed("Ambiguous subagent label prefix: ", trimmedToken)
    /\ ExactLabel = {} /\ LabelPrefix = {} /\ Cardinality(RunIdPrefix) > 1 =>
         resolution = Failed("Ambiguous run id prefix: ", trimmedToken)

\* C4 witness: two runs with different labels share the token as a label
\* prefix, and the run id rule would have matched too.
C4_Witness ==
  /\ phase = "resolved"
  /\ IsNameToken(trimmedToken)
  /\ ExactLabel = {}
  /\ \E i, j \in LabelPrefix : registry[i].label # registry[j].label
  /\ RunIdPrefix # {}
  /\ resolution = Failed("Ambiguous subagent label prefix: ", trimmedToken)

\* C5: a token equal, case-insensitively, to exactly one run's label
\* resolves to that run, whatever the label-prefix and run id rules match.
C5_ExactLabelWins ==
  phase = "resolved" /\ IsNameToken(trimmedToken) =>
    \A i \in Indices : ExactLabel = {i} => resolution = Resolved(registry[i])

\* C5 witness: the token equals one label up to case, is a proper prefix of
\* another run's label and a prefix of a third run's run id.
C5_Witness ==
  /\ phase = "resolved"
  /\ IsNameToken(trimmedToken)
  /\ \E i \in ExactLabel :
       /\ ExactLabel = {i}
       /\ registry[i].label # trimmedToken
       /\ resolution = Resolved(registry[i])
       /\ \E j \in LabelPrefix \ {i} : \E k \in RunIdPrefix \ {i, j} : TRUE

\* The number of active and recently ended runs.
InWindowCount == Cardinality({i \in Indices : ~IsOld(registry[i])})

\* C6: an all-digit token whose value is 0 or exceeds the number of
\* active plus recently ended runs is an invalid-index error naming the
\* token; an all-digit token is decided by the index alone, whatever the
\* labels and run ids are.
C6_InvalidIndex ==
  phase = "resolved" /\ AllDigits(trimmedToken) =>
    IF parseInt(trimmedToken) = 0 \/ parseInt(trimmedToken) > InWindowCount
      THEN resolution = Failed("Invalid subagent index: ", trimmedToken)
      ELSE /\ resolution.error = None
           /\ resolution.entry # None
           /\ resolution.entry[1] = numericOrder(registry, now)[parseInt(trimmedToken)]

\* C6 witness: the index is out of range although a run carries the token
\* as its label and another run's id starts with it.
C6_Witness ==
  /\ phase = "resolved"
  /\ AllDigits(trimmedToken)
  /\ parseInt(trimmedToken) > InWindowCount
  /\ ExactLabel # {}
  /\ RunIdPrefix # {}
  /\ resolution = Failed("Invalid subagent index: ", trimmedToken)

\* The records whose childSessionKey is the token.
KeyMatches == {i \in Indices : registry[i].childSessionKey = trimmedToken}

IsKeyToken(t) == t # <<>> /\ ~IsLast(t) /\ ~AllDigits(t) /\ includes(t, ":")

Call(op, args) == [op |-> op, args |-> args]

\* A reply: the text of the message and the value interpolated into it.
Reply(kind, text, arg) == [kind |-> kind, text |-> text, arg |-> arg]

\* return { shouldContinue: false, reply: { text } } / { shouldContinue: false }
Result(reply) == Some([shouldContinue |-> FALSE, reply |-> reply])

\* The verb returns at once.
Returns(calls, resolved, reply) ==
  [pc |-> "done", calls |-> calls, resolved |-> resolved, entry |-> None,
   result |-> Result(reply)]

\* Mutant of resolverErrorReply: the resolver's message is dropped.
resolverErrorReplyGeneric(resolved) == Reply("warning", "Unknown subagent.", <<>>)

\* `${resolved.error ?? "Unknown subagent."}` behind the warning sign
resolverErrorReply(resolved) ==
  IF resolved.error # None
    THEN Reply("warning", resolved.error[1][1], resolved.error[1][2])
    ELSE Reply("warning", "Unknown subagent.", <<>>)

\* `${formatRunLabel(resolved.entry)} is already finished.`
alreadyFinishedReply(entry) ==
  Reply("finished", " is already finished.", formatRunLabel(entry))

\* Mutant of loadSubagentSessionEntry: the entry of the first child is read
\* whatever the key.
loadFirstSessionEntry(sessionStore, childKey) == sessionStore[KeyAt(1)]

\* loadSubagentSessionEntry(params, childKey).entry: store[childKey]
loadSubagentSessionEntry(sessionStore, childKey) ==
  IF childKey \in DOMAIN sessionStore THEN sessionStore[childKey] ELSE None

\* Mutant of targetAlreadyFinished: the check is left out.
targetNeverFinished(entry) == FALSE

\* Mutant of targetAlreadyFinished: only a run that ended before the recent
\* window counts as finished.
targetFinishedLongAgo(entry) ==
  entry.endedAt # 0 /\ entry.endedAt < recentCutoff(NowMs)

\* if (resolved.entry.endedAt)
targetAlreadyFinished(entry) == entry.endedAt # 0

\* stop on a resolved, active target: everything up to the call of
\* updateSessionStore, or up to the return when there is no session entry.
stopTarget(calls, target, sessionStore, clock) ==
  LET childKey == target.childSessionKey
      entry == loadSubagentSessionEntry(sessionStore, childKey)
      sessionId == IF entry # None THEN entry[1].sessionId ELSE None
      abort ==
        IF sessionId # None THEN <<Call("abortEmbeddedPiRun", sessionId)>> ELSE <<>>
      issued ==
        calls \o <<Call("loadSessionStore", <<childKey>>)>> \o abort
          \o <<Call("clearSessionQueues", <<childKey>> \o sessionId)>>
  IN  IF entry # None
        THEN [pc |-> "stop_update",
              calls |-> issued \o <<Call("updateSessionStore", <<childKey>>)>>,
              resolved |-> Some(target),
              entry |-> Some([entry[1] EXCEPT !.abortedLastRun = TRUE,
                                              !.updatedAt = clock]),
              result |-> None]
        ELSE Returns(issued \o <<Call("stopSubagentsForRequester", <<childKey>>)>>,
                     Some(target), None)

\* Mutant of stopCommand: 'all' and '*' are given to the resolver like any
\* other token.
stopCommandResolvesAll(runs, target, sessionStore, clock) ==
  LET calls == <<Call("listSubagentRunsForRequester", <<RequesterKey>>)>>
  IN  IF target = None
        THEN Returns(calls, None, Some(Reply("usage", "Usage: /subagents stop <id|#|all>", <<>>)))
      ELSE
        LET resolved == resolveSubagentTarget(runs, target[1], clock)
        IN  IF resolved.entry = None
              THEN Returns(calls, None, Some(resolverErrorReply(resolved)))
            ELSE IF targetAlreadyFinished(resolved.entry[1])
              THEN Returns(calls, resolved.entry, Some(alreadyFinishedReply(resolved.entry[1])))
            ELSE stopTarget(calls, resolved.entry[1], sessionStore, clock)

\* The stop verb from the registry read to its first suspension or return.
stopCommand(runs, target, sessionStore, clock) ==
  LET calls == <<Call("listSubagentRunsForRequester", <<RequesterKey>>)>>
  IN  IF target = None
        THEN Returns(calls, None, Some(Reply("usage", "Usage: /subagents stop <id|#|all>", <<>>)))
      ELSE IF target[1] = <<"a", "l", "l">> \/ target[1] = <<"*">>
        THEN Returns(calls \o <<Call("stopSubagentsForRequester", <<RequesterKey>>)>>,
                     None, None)
      ELSE
        LET resolved == resolveSubagentTarget(runs, target[1], clock)
        IN  IF resolved.entry = None
              THEN Returns(calls, None, Some(resolverErrorReply(resolved)))
            ELSE IF targetAlreadyFinished(resolved.entry[1])
              THEN Returns(calls, resolved.entry, Some(alreadyFinishedReply(resolved.entry[1])))
            ELSE stopTarget(calls, resolved.entry[1], sessionStore, clock)

(***************************************************************************)
(* The command handler and its environment.                                *)
(***************************************************************************)
\* The i-th child run as the spawner registered it.
ChildRun(i) ==
  [runId |-> RunIdAt(i), childSessionKey |-> KeyAt(i), label |-> <<"A", Digits[i + 1]>>,
   createdAt |-> MinutesAgo(50), startedAt |-> None, endedAt |-> 0]

\* A session id that is a string of white space only.
BlankSessionId == <<" ">>

\* The session entries a child may have: none, one without a backend
\* session id, one with it and, for the first child, one whose session id
\* is blank.
SessionEntries(i) ==
  {None} \cup
  {Some([sessionId |-> sid, abortedLastRun |-> FALSE, updatedAt |-> MinutesAgo(50),
         totalTokens |-> 0]) :
     sid \in {None, Some(SessionIdAt(i))}
              \cup (IF i = 1 THEN {Some(BlankSessionId)} ELSE {})}

\* restTokens[0] of a stop command: absent, 'all', '*', 'last', an unknown
\* name, or a list index.
StopTargets ==
  {None, Some(<<"a", "l", "l">>), Some(<<"*">>), Some(<<"l", "a", "s", "t">>),
   Some(<<"z">>)}
  \cup {Some(numberToString(i)) : i \in 1..MaxChildren}

Init ==
  /\ \E n \in 0..MaxChildren :
       /\ registry = [i \in 1..n |-> ChildRun(i)]
       /\ store \in {st \in [SessionKeys -> UNION {SessionEntries(i) : i \in 1..MaxChildren}] :
                       \A i \in 1..MaxChildren :
                         /\ st[KeyAt(i)] \in SessionEntries(i)
                         /\ i > n => st[KeyAt(i)] = None}
  /\ now = NowMs
  /\ inv = [i \in Invs |-> IdleInvocation]
  /\ steerRestart = {}
  /\ phase = "start"
  /\ listing = <<>>
  /\ token = <<>>
  /\ resolution = NoResolution
  /\ builder = NoBuilder

\* An invocation of stop runs from the registry read to the call of
\* updateSessionStore, where it suspends, or to its return.
Stop(i) ==
  /\ inv[i].pc = "idle"
  /\ \E target \in StopTargets :
       LET out == stopCommand(registry, target, store, now)
       IN  inv' = [inv EXCEPT ![i] =
                     [pc |-> out.pc, action |-> "stop", target |-> target,
                      resolved |-> out.resolved, entry |-> out.entry,
                      calls |-> out.calls, result |-> out.result]]
  /\ UNCHANGED <<registry, now, store, steerRestart, resolverVars, builder>>

\* Mutant of StopUpdateSucceeds: the stop also ends the waits that other
\* invocations have pending on the run it stopped.
StopUpdateCancelsWaits(i) ==
  /\ inv[i].pc = "stop_update"
  /\ LET childKey == inv[i].resolved[1].childSessionKey
         Waits(j) ==
           /\ j # i
           /\ inv[j].pc = "send_wait"
           /\ inv[j].resolved[1].childSessionKey = childKey
     IN  /\ store' = [store EXCEPT ![childKey] = inv[i].entry]
         /\ inv' = [j \in DOMAIN inv |->
                      IF j = i
                        THEN [inv[j] EXCEPT
                                !.pc = "done",
                                !.calls = @ \o <<Call("stopSubagentsForRequester", <<childKey>>)>>,
                                !.result = Result(None)]
                      ELSE IF Waits(j)
                        THEN [inv[j] EXCEPT
                                !.pc = "done",
                                !.result = Result(Some(alreadyFinishedReply(inv[j].resolved[1])))]
                      ELSE inv[j]]
  /\ UNCHANGED <<registry, now, steerRestart, resolverVars, builder>>

\* updateSessionStore applies the mutator, nextStore[childKey] = entry, to
\* the store as it is now; the handler then cascades and returns.
StopUpdateSucceeds(i) ==
  /\ inv[i].pc = "stop_update"
  /\ LET childKey == inv[i].resolved[1].childSessionKey
     IN  /\ store' = [store EXCEPT ![childKey] = inv[i].entry]
         /\ inv' = [inv EXCEPT
                      ![i].pc = "done",
                      ![i].calls = @ \o <<Call("stopSubagentsForRequester", <<childKey>>)>>,
                      ![i].result = Result(None)]
  /\ UNCHANGED <<registry, now, steerRestart, resolverVars, builder>>

\* updateSessionStore rejects: the await throws out of the handler.
StopUpdateFails(i) ==
  /\ inv[i].pc = "stop_update"
  /\ inv' = [inv EXCEPT ![i].pc = "threw"]
  /\ UNCHANGED <<registry, now, store, steerRestart, resolverVars, builder>>

\* A run of the requester ends.
RunEnds(k) ==
  /\ isActive(registry[k])
  /\ registry' = [registry EXCEPT ![k].endedAt = now]
  /\ UNCHANGED <<now, store, inv, steerRestart, resolverVars, builder>>

\* The session's own run records its token usage in the store.
WriteUsage(key) ==
  /\ store[key] # None
  /\ store[key][1].totalTokens < MaxUsage
  /\ store' = [store EXCEPT ![key] =
                 Some([@[1] EXCEPT !.totalTokens = @ + 1, !.updatedAt = now])]
  /\ UNCHANGED <<registry, now, inv, steerRestart, resolverVars, builder>>

Next ==
  \/ \E i \in Invs : Stop(i)
  \/ \E i \in Invs : StopUpdateSucceeds(i)
  \/ \E i \in Invs : StopUpdateFails(i)
  \/ \E k \in 1..Len(registry) : RunEnds(k)
  \/ \E key \in SessionKeys : WriteUsage(key)

Spec == Init /\ [][Next]_vars

(***************************************************************************)
(* handleSubagentsCommand: the whole command                               *)
(***************************************************************************)
COMMAND == <<"/", "s", "u", "b", "a", "g", "e", "n", "t", "s">>

COMMAND_KILL == <<"/", "k", "i", "l", "l">>

COMMAND_STEER == <<"/", "s", "t", "e", "e", "r">>

COMMAND_TELL == <<"/", "t", "e", "l", "l">>

\* The words of the command language.
LIST == <<"l", "i", "s", "t">>

STOP == <<"s", "t", "o", "p">>

KILL == <<"k", "i", "l", "l">>

LOG == <<"l", "o", "g">>

SEND == <<"s", "e", "n", "d">>

STEER == <<"s", "t", "e", "e", "r">>

INFO == <<"i", "n", "f", "o">>

HELP == <<"h", "e", "l", "p">>

ALL == <<"a", "l", "l">>

STAR == <<"*">>

LAST == <<"l", "a", "s", "t">>

TOOLS == <<"t", "o", "o", "l", "s">>

\* The members of ACTIONS, each with the name the model calls the verb by.
ActionName ==
  (LIST :> "list") @@ (STOP :> "stop") @@ (KILL :> "kill") @@ (LOG :> "log")
    @@ (SEND :> "send") @@ (STEER :> "steer") @@ (INFO :> "info") @@ (HELP :> "help")

\* ACTIONS (a reserved word of the language, hence the longer name)
ACTIONS_SET == DOMAIN ActionName

\* The prefix the command body starts with, if it is one of the four.
handledPrefixOf(normalized) ==
  IF startsWith(normalized, COMMAND) THEN Some(COMMAND)
  ELSE IF startsWith(normalized, COMMAND_KILL) THEN Some(COMMAND_KILL)
  ELSE IF startsWith(normalized, COMMAND_STEER) THEN Some(COMMAND_STEER)
  ELSE IF startsWith(normalized, COMMAND_TELL) THEN Some(COMMAND_TELL)
  ELSE None

\* Mutant of parseAction: '/tell' is a plain send, not a steer.
parseActionTellSends(handledPrefix, normalized) ==
  LET restTokens == splitWords(trim(sliceFrom(normalized, Len(handledPrefix))))
      actionRaw == IF restTokens # <<>> THEN toLowerCase(restTokens[1]) ELSE <<>>
      word ==
        IF handledPrefix = COMMAND THEN (IF actionRaw # <<>> THEN actionRaw ELSE LIST)
        ELSE IF handledPrefix = COMMAND_KILL THEN KILL
        ELSE IF handledPrefix = COMMAND_TELL THEN SEND
        ELSE STEER
      args ==
        IF handledPrefix = COMMAND /\ restTokens # <<>> THEN Tail(restTokens)
        ELSE restTokens
  IN  IF word \notin ACTIONS_SET
        THEN [known |-> FALSE, action |-> "", steerRequested |-> FALSE,
              restTokens |-> restTokens]
        ELSE [known |-> TRUE,
              action |-> IF word = KILL THEN "stop"
                         ELSE IF word = STEER THEN "send"
                         ELSE ActionName[word],
              steerRequested |-> word = STEER,
              restTokens |-> args]

\* Mutant of parseAction: after '/subagents' the word 'kill' is not taken
\* off the tokens.
parseActionKeepsKill(handledPrefix, normalized) ==
  LET restTokens == splitWords(trim(sliceFrom(normalized, Len(handledPrefix))))
      actionRaw == IF restTokens # <<>> THEN toLowerCase(restTokens[1]) ELSE <<>>
      word ==
        IF handledPrefix = COMMAND THEN (IF actionRaw # <<>> THEN actionRaw ELSE LIST)
        ELSE IF handledPrefix = COMMAND_KILL THEN KILL
        ELSE STEER
      args ==
        IF handledPrefix = COMMAND /\ restTokens # <<>> /\ word # KILL THEN Tail(restTokens)
        ELSE restTokens
  IN  IF word \notin ACTIONS_SET
        THEN [known |-> FALSE, action |-> "", steerRequested |-> FALSE,
              restTokens |-> restTokens]
        ELSE [known |-> TRUE,
              action |-> IF word = KILL THEN "stop"
                         ELSE IF word = STEER THEN "send"
                         ELSE ActionName[word],
              steerRequested |-> word = STEER,
              restTokens |-> args]

\* The verb, the steer flag and the remaining tokens of a handled command;
\* known is FALSE when '/subagents' is followed by a word outside the set.
parseAction(handledPrefix, normalized) ==
  LET restTokens == splitWords(trim(sliceFrom(normalized, Len(handledPrefix))))
      actionRaw == IF restTokens # <<>> THEN toLowerCase(restTokens[1]) ELSE <<>>
      word ==
        IF handledPrefix = COMMAND THEN (IF actionRaw # <<>> THEN actionRaw ELSE LIST)
        ELSE IF handledPrefix = COMMAND_KILL THEN KILL
        ELSE STEER
      args ==
        IF handledPrefix = COMMAND /\ restTokens # <<>> THEN Tail(restTokens)
        ELSE restTokens
  IN  IF word \notin ACTIONS_SET
        THEN [known |-> FALSE, action |-> "", steerRequested |-> FALSE,
              restTokens |-> restTokens]
        ELSE [known |-> TRUE,
              action |-> IF word = KILL THEN "stop"
                         ELSE IF word = STEER THEN "send"
                         ELSE ActionName[word],
              steerRequested |-> word = STEER,
              restTokens |-> args]

\* The locals of an invocation that has just been called with the command.
Started(command) ==
  [pc |-> "idle", command |-> command, handledPrefix |-> None, action |-> "",
   steerRequested |-> FALSE, target |-> None, resolved |-> None, entry |-> None,
   calls |-> <<>>, result |-> None, message |-> <<>>, runId |-> None,
   response |-> None, thrown |-> None, wait |-> None, history |-> None,
   limit |-> 0, includeTools |-> FALSE]

\* return { shouldContinue: false, reply: { text } } after these calls
Finish(locals, calls, reply) ==
  [locals EXCEPT !.pc = "done", !.calls = calls, !.result = Result(Some(reply))]

\* buildSubagentsHelp()
buildSubagentsHelp == Reply("help", "Subagents\nUsage:", <<>>)

\* resolveStorePath(cfg.session?.store, { agentId }): the store file of the
\* agent the session key belongs to.  Every third child belongs to a second
\* agent, the others to the first.
storePathOf(childKey) ==
  IF childKey[Len(childKey)] \in {"3", "6", "9"} THEN "sessions-b" ELSE "sessions-a"

\* The loads of loadSubagentSessionEntry(params, key, storeCache) over the
\* lines in order: the store of a path is loaded when the cache does not
\* hold it, and is put into the cache.
RECURSIVE listLoads(_, _)
listLoads(lines, storeCache) ==
  IF lines = <<>> THEN <<>>
  ELSE
    LET childKey == Head(lines).run.childSessionKey
        storePath == storePathOf(childKey)
    IN  IF storePath \in storeCache
          THEN listLoads(Tail(lines), storeCache)
          ELSE <<Call("loadSessionStore", <<childKey>>)>>
                 \o listLoads(Tail(lines), storeCache \cup {storePath})

\* The lines of list, each with the session entry it is rendered from.
listRendered(lines, sessionStore) ==
  [n \in 1..Len(lines) |->
     [index |-> lines[n].index, run |-> lines[n].run,
      sessionEntry |-> loadSubagentSessionEntry(sessionStore, lines[n].run.childSessionKey)]]

\* Mutant of listCommand: no cache is given to loadSubagentSessionEntry, as
\* in info, so the store is loaded for every line.
listCommandWithoutCache(locals, calls, runs, sessionStore, clock) ==
  LET lines == listLines(runs, clock)
      loads == [n \in 1..Len(lines) |->
                  Call("loadSessionStore", <<lines[n].run.childSessionKey>>)]
  IN  Finish(locals, calls \o loads,
             Reply("list", "active subagents:", listRendered(lines, sessionStore)))

\* list: the numbered lines, active runs first, with a cache of session
\* stores created for this invocation.
listCommand(locals, calls, runs, sessionStore, clock) ==
  LET lines == listLines(runs, clock)
  IN  Finish(locals, calls \o listLoads(lines, {}),
             Reply("list", "active subagents:", listRendered(lines, sessionStore)))

\* Mutant of infoCommand: a run that has ended is answered like in stop and
\* send.
infoCommandOfActiveOnly(locals, calls, runs, restTokens, sessionStore, clock) ==
  IF restTokens = <<>>
    THEN Finish(locals, calls, Reply("usage", "Usage: /subagents info <id|#>", <<>>))
  ELSE
    LET resolved == resolveSubagentTarget(runs, restTokens[1], clock)
    IN  IF resolved.entry = None
          THEN Finish(locals, calls, resolverErrorReply(resolved))
        ELSE IF targetAlreadyFinished(resolved.entry[1])
          THEN Finish([locals EXCEPT !.resolved = resolved.entry], calls,
                      alreadyFinishedReply(resolved.entry[1]))
        ELSE
          LET run == resolved.entry[1]
              sessionEntry == loadSubagentSessionEntry(sessionStore, run.childSessionKey)
              sessionId ==
                IF sessionEntry # None /\ sessionEntry[1].sessionId # None
                  THEN sessionEntry[1].sessionId[1]
                  ELSE <<"n", "/", "a">>
          IN  Finish([locals EXCEPT !.resolved = resolved.entry],
                     calls \o <<Call("loadSessionStore", <<run.childSessionKey>>)>>,
                     Reply("info", "Subagent info",
                           <<run.runId, run.childSessionKey, sessionId>>))

\* info
infoCommand(locals, calls, runs, restTokens, sessionStore, clock) ==
  IF restTokens = <<>>
    THEN Finish(locals, calls, Reply("usage", "Usage: /subagents info <id|#>", <<>>))
  ELSE
    LET resolved == resolveSubagentTarget(runs, restTokens[1], clock)
    IN  IF resolved.entry = None
          THEN Finish(locals, calls, resolverErrorReply(resolved))
        ELSE
          LET run == resolved.entry[1]
              sessionEntry == loadSubagentSessionEntry(sessionStore, run.childSessionKey)
              sessionId ==
                IF sessionEntry # None /\ sessionEntry[1].sessionId # None
                  THEN sessionEntry[1].sessionId[1]
                  ELSE <<"n", "/", "a">>
          IN  Finish([locals EXCEPT !.resolved = resolved.entry],
                     calls \o <<Call("loadSessionStore", <<run.childSessionKey>>)>>,
                     Reply("info", "Subagent info",
                           <<run.runId, run.childSessionKey, sessionId>>))

\* Math.min(200, Math.max(1, Number.parseInt(limitToken, 10))), or 20 when
\* no token of restTokens is all digits
logLimit(restTokens) ==
  LET limitTokens == SelectSeq(restTokens, AllDigits)
      parsed == parseInt(limitTokens[1])
      atLeastOne == IF parsed < 1 THEN 1 ELSE parsed
  IN  IF limitTokens = <<>> THEN 20
      ELSE IF atLeastOne > 200 THEN 200 ELSE atLeastOne

\* restTokens.some((token) => token.toLowerCase() === "tools")
logIncludesTools(restTokens) ==
  \E k \in 1..Len(restTokens) : toLowerCase(restTokens[k]) = TOOLS

\* log, up to the call of chat.history
logCommand(locals, calls, runs, restTokens, clock) ==
  IF restTokens = <<>>
    THEN Finish(locals, calls, Reply("usage", "Usage: /subagents log <id|#> [limit]", <<>>))
  ELSE
    LET resolved == resolveSubagentTarget(runs, restTokens[1], clock)
        limit == logLimit(restTokens)
    IN  IF resolved.entry = None
          THEN Finish(locals, calls, resolverErrorReply(resolved))
        ELSE [locals EXCEPT
                !.pc = "log_history",
                !.resolved = resolved.entry,
                !.limit = limit,
                !.includeTools = logIncludesTools(restTokens),
                !.calls = calls \o
                  <<Call("chat.history",
                         [sessionKey |-> resolved.entry[1].childSessionKey,
                          limit |-> limit])>>]

\* The usage string of send, steer, /steer and /tell.
sendUsage(steerRequested, handledPrefix) ==
  IF ~steerRequested
    THEN Reply("usage", "Usage: /subagents send <id|#> <message>", <<>>)
  ELSE IF handledPrefix = COMMAND
    THEN Reply("usage", "Usage: /subagents steer <id|#> <message>", <<>>)
  ELSE Reply("usage", "Usage: <prefix> <id|#> <message>", handledPrefix)

\* targetSessionId: the trimmed session id of the entry, if it is not blank
trimmedSessionId(sessionEntry) ==
  IF sessionEntry # None /\ sessionEntry[1].sessionId # None
       /\ trim(sessionEntry[1].sessionId[1]) # <<>>
    THEN Some(trim(sessionEntry[1].sessionId[1]))
    ELSE None

\* Mutant of dispatchCall: the message is dispatched to the session the
\* command came from.
dispatchCallToRequester(message, childKey, idempotencyKey) ==
  Call("agent",
       [message |-> message, sessionKey |-> RequesterKey,
        idempotencyKey |-> idempotencyKey, deliver |-> FALSE,
        channel |-> "INTERNAL_MESSAGE_CHANNEL", lane |-> "AGENT_LANE_SUBAGENT"])

\* The call of the gateway method 'agent'.
dispatchCall(message, childKey, idempotencyKey) ==
  Call("agent",
       [message |-> message, sessionKey |-> childKey,
        idempotencyKey |-> idempotencyKey, deliver |-> FALSE,
        channel |-> "INTERNAL_MESSAGE_CHANNEL", lane |-> "AGENT_LANE_SUBAGENT"])

\* Mutant of steerInterrupt: the mark is issued after the abort and the
\* queue clearing.
steerInterruptMarksLast(run, targetSessionId) ==
  (IF targetSessionId # None
     THEN <<Call("abortEmbeddedPiRun", targetSessionId)>> ELSE <<>>)
    \o <<Call("clearSessionQueues", <<run.childSessionKey>> \o targetSessionId)>>
    \o <<Call("markSubagentRunForSteerRestart", <<run.runId>>)>>

\* What a steer issues before it dispatches: the mark, the abort if a
\* session id is known, the queue clearing.
steerInterrupt(run, targetSessionId) ==
  <<Call("markSubagentRunForSteerRestart", <<run.runId>>)>>
    \o (IF targetSessionId # None
          THEN <<Call("abortEmbeddedPiRun", targetSessionId)>> ELSE <<>>)
    \o <<Call("clearSessionQueues", <<run.childSessionKey>> \o targetSessionId)>>

\* Mutant of sendInterrupt: a plain send interrupts like a steer.
sendInterruptAlways(steerRequested, run, targetSessionId) ==
  steerInterrupt(run, targetSessionId)

\* if (steerRequested) { ... }
sendInterrupt(steerRequested, run, targetSessionId) ==
  IF steerRequested THEN steerInterrupt(run, targetSessionId) ELSE <<>>

\* send and steer, up to the call of the gateway method 'agent'
sendCommand(locals, calls, runs, restTokens, sessionStore, clock, uuid) ==
  LET message == IF restTokens # <<>> THEN trim(joinWords(Tail(restTokens))) ELSE <<>>
  IN  IF restTokens = <<>> \/ message = <<>>
        THEN Finish(locals, calls, sendUsage(locals.steerRequested, locals.handledPrefix[1]))
      ELSE
        LET resolved == resolveSubagentTarget(runs, restTokens[1], clock)
        IN  IF resolved.entry = None
              THEN Finish(locals, calls, resolverErrorReply(resolved))
            ELSE IF targetAlreadyFinished(resolved.entry[1])
              THEN Finish([locals EXCEPT !.resolved = resolved.entry], calls,
                          alreadyFinishedReply(resolved.entry[1]))
            ELSE
              LET run == resolved.entry[1]
                  targetSessionEntry ==
                    loadSubagentSessionEntry(sessionStore, run.childSessionKey)
                  targetSessionId == trimmedSessionId(targetSessionEntry)
              IN  [locals EXCEPT
                     !.pc = "send_dispatch",
                     !.resolved = resolved.entry,
                     !.message = message,
                     !.runId = Some(uuid),
                     !.calls = calls
                       \o <<Call("loadSessionStore", <<run.childSessionKey>>)>>
                       \o sendInterrupt(locals.steerRequested, run, targetSessionId)
                       \o <<dispatchCall(message, run.childSessionKey, uuid)>>]

\* The usage string of stop, kill and /kill.
stopUsage(handledPrefix) ==
  IF handledPrefix = COMMAND
    THEN Reply("usage", "Usage: /subagents stop <id|#|all>", <<>>)
    ELSE Reply("usage", "Usage: /kill <id|#|all>", <<>>)

\* Mutant of isAuthorized: every sender is let through.
isAuthorizedAlways(command) == TRUE

\* params.command.isAuthorizedSender
isAuthorized(command) == command.isAuthorizedSender

\* The handler from its call to its first suspension or return.  uuid is
\* what crypto.randomUUID() returns if the handler calls it.
handleSubagentsCommand(command, runs, sessionStore, clock, uuid) ==
  LET handledPrefix == handledPrefixOf(command.body)
  IN  IF ~command.allowTextCommands \/ handledPrefix = None
        THEN [Started(command) EXCEPT !.pc = "declined"]
      ELSE IF ~isAuthorized(command)
        THEN [Started(command) EXCEPT
                !.pc = "done", !.handledPrefix = handledPrefix, !.result = Result(None)]
      ELSE
        LET parsed == parseAction(handledPrefix[1], command.body)
            restTokens == parsed.restTokens
            requesterKey == trim(command.sessionKey)
            locals ==
              [Started(command) EXCEPT
                 !.handledPrefix = handledPrefix,
                 !.action = parsed.action,
                 !.steerRequested = parsed.steerRequested,
                 !.target = IF parsed.known /\ restTokens # <<>>
                              THEN Some(restTokens[1]) ELSE None]
            calls == <<Call("listSubagentRunsForRequester", <<requesterKey>>)>>
        IN  IF ~parsed.known THEN Finish(locals, <<>>, buildSubagentsHelp)
            ELSE IF requesterKey = <<>>
              THEN Finish(locals, <<>>, Reply("warning", "Missing session key.", <<>>))
            ELSE IF parsed.action = "help" THEN Finish(locals, calls, buildSubagentsHelp)
            ELSE IF parsed.action = "list"
              THEN listCommand(locals, calls, runs, sessionStore, clock)
            ELSE IF parsed.action = "stop" THEN
              IF restTokens = <<>>
                THEN Finish(locals, calls, stopUsage(handledPrefix[1]))
              ELSE
                LET out == stopCommand(runs, Some(restTokens[1]), sessionStore, clock)
                IN  [locals EXCEPT !.pc = out.pc, !.calls = out.calls,
                                   !.resolved = out.resolved, !.entry = out.entry,
                                   !.result = out.result]
            ELSE IF parsed.action = "info"
              THEN infoCommand(locals, calls, runs, restTokens, sessionStore, clock)
            ELSE IF parsed.action = "log"
              THEN logCommand(locals, calls, runs, restTokens, clock)
            ELSE sendCommand(locals, calls, runs, restTokens, sessionStore, clock, uuid)

(***************************************************************************)
(* The collaborators of send, steer and log: the run registry, the gateway *)
(* and the transcript helpers.                                             *)
(***************************************************************************)
\* markSubagentRunForSteerRestart(runId), for every mark among the calls.
markedForSteerRestart(marks, calls) ==
  marks \cup {calls[n].args[1] :
                n \in {m \in 1..Len(calls) : calls[m].op = "markSubagentRunForSteerRestart"}}

\* replaceSubagentRunAfterSteer({ previousRunId, nextRunId, fallback }): the
\* old record is marked ended and a new record with the new run id is
\* created, which inherits label and session linkage from the old record,
\* or from the fallback when the registry no longer holds the old one.
replaceSubagentRunAfterSteer(runs, previousRunId, nextRunId, fallback, clock) ==
  LET IsPrevious(entry) == entry.runId = previousRunId
      found == SelectSeq(runs, IsPrevious)
      source == IF found # <<>> THEN found[1] ELSE fallback
      superseded ==
        [k \in 1..Len(runs) |->
           IF IsPrevious(runs[k]) /\ isActive(runs[k])
             THEN [runs[k] EXCEPT !.endedAt = clock]
             ELSE runs[k]]
  IN  Append(superseded,
             [source EXCEPT !.runId = nextRunId, !.createdAt = clock,
                            !.startedAt = Some(clock), !.endedAt = 0])

\* What crypto.randomUUID() may return.
UuidAt(k) == <<"0", "0", "0", "0", "0", "0", "0", Digits[k + 1], "-", "u">>

UUIDs == {UuidAt(1), UuidAt(2)}

\* The run id the backend assigns to a dispatched message.
BackendRunId == <<"r", "u", "n", "-", "0", "0", "0", "7", "-", "b">>

\* The response of the gateway method 'agent': with a run id, with an empty
\* one, without one.
DispatchResponses == {[runId |-> Some(BackendRunId)], [runId |-> Some(<<>>)], [runId |-> None]}

\* What a rejected gateway call throws: an Error, a string, something else.
BackendErrors ==
  {[type |-> "Error", message |-> <<"d", "o", "w", "n">>],
   [type |-> "string", message |-> <<"b", "u", "s", "y">>],
   [type |-> "other", message |-> <<>>]}

\* err instanceof Error ? err.message : typeof err === "string" ? err : "error"
messageText(err) ==
  IF err.type \in {"Error", "string"} THEN err.message
  ELSE <<"e", "r", "r", "o", "r">>

\* The responses of 'agent.wait'.
WaitResponses ==
  {[status |-> "ok", error |-> None], [status |-> "timeout", error |-> None],
   [status |-> "error", error |-> None],
   [status |-> "error", error |-> Some(<<"o", "o", "m">>)]}

\* A transcript message with string content.
Message(role, text) == [role |-> role, text |-> text]

\* The transcripts 'chat.history' may return.
Histories ==
  {<<>>,
   <<Message("assistant", <<"o", "k">>)>>,
   <<Message("user", <<"h", "i">>), Message("assistant", <<" ", "o", "k", " ">>),
     Message("tool", <<"t">>)>>,
   <<Message("assistant", <<"o", "k">>), Message("user", <<"h", "i">>)>>,
   <<Message("assistant", <<" ">>)>>}

\* stripToolMessages(messages): the messages that are not tool messages.
stripToolMessages(messages) ==
  LET NotTool(msg) == msg.role # "tool"
  IN  SelectSeq(messages, NotTool)

\* extractAssistantText(message): the text of an assistant message, if it
\* has any.
extractAssistantText(msg) ==
  IF msg.role = "assistant" /\ trim(msg.text) # <<>> THEN Some(trim(msg.text)) ELSE None

\* text.replace(/\s+/g, " ").trim()
normalizeMessageText(text) == joinWords(splitWords(text))

\* formatLogLines(messages): one line per message with text, labelled
\* Assistant for an assistant message and User for any other.
RECURSIVE formatLogLines(_)
formatLogLines(messages) ==
  IF messages = <<>> THEN <<>>
  ELSE
    LET msg == Head(messages)
        text == normalizeMessageText(msg.text)
        label == IF msg.role = "assistant" THEN "Assistant" ELSE "User"
    IN  (IF text # <<>> THEN <<[label |-> label, text |-> text]>> ELSE <<>>)
          \o formatLogLines(Tail(messages))

(***************************************************************************)
(* The commands given to the handler.                                      *)
(***************************************************************************)
\* The targets of a command: 'last', an unknown name, the list indices.
CommandTargets == {LAST, <<"z">>} \cup {numberToString(i) : i \in 1..MaxChildren}

\* The messages of send and steer, as the words typed.
Messages == {<<<<"h", "i">>>>}

\* The command bodies that start with '/subagents'.
SubagentsBodies ==
  {COMMAND, COMMAND \o <<" ">>, joinWords(<<COMMAND, LIST>>), joinWords(<<COMMAND, HELP>>),
   joinWords(<<COMMAND, <<"z">>>>), joinWords(<<COMMAND, <<"S", "t", "o", "p">>, <<"1">>>>),
   COMMAND \o <<"x", " ">> \o LIST}
  \cup {joinWords(<<COMMAND, verb>>) : verb \in {STOP, KILL, INFO, LOG, SEND, STEER}}
  \cup {joinWords(<<COMMAND, verb, t>>) :
          verb \in {STOP, KILL, INFO, LOG, SEND, STEER}, t \in CommandTargets}
  \cup {joinWords(<<COMMAND, verb, t>>) : verb \in {STOP, KILL}, t \in {ALL, STAR}}
  \cup {joinWords(<<COMMAND, LOG, t, l>>) :
          t \in {LAST, <<"1">>}, l \in {<<"0">>, <<"5">>, <<"9", "9", "9">>, TOOLS}}
  \cup {joinWords(<<COMMAND, verb, t>> \o m) :
          verb \in {SEND, STEER}, t \in CommandTargets, m \in Messages}
  \cup {joinWords(<<COMMAND, verb, LAST>>) \o <<" ", " ", "g", "o", " ", " ", "o", "n", " ">> :
          verb \in {SEND, STEER}}

\* The command bodies that start with '/kill', '/steer' or '/tell'.
ShortcutBodies ==
  {COMMAND_KILL, COMMAND_STEER, COMMAND_TELL, joinWords(<<COMMAND_KILL, ALL>>),
   joinWords(<<COMMAND_STEER, <<"1">>>>), joinWords(<<COMMAND_TELL, <<"1">>>>),
   COMMAND_KILL \o ALL \o <<" ">> \o LAST}
  \cup {joinWords(<<COMMAND_KILL, t>>) : t \in CommandTargets}
  \cup {joinWords(<<prefix, t, <<"h", "i">>>>) :
          prefix \in {COMMAND_STEER, COMMAND_TELL}, t \in CommandTargets}

\* Command bodies of other commands.
OtherBodies == {<<"/", "n", "e", "w">>, <<>>}

\* The commands: every body from an authorized and from an unauthorized
\* sender; a command without a session key; one with text commands
\* disallowed.
Commands ==
  [body : SubagentsBodies \cup ShortcutBodies \cup OtherBodies,
   isAuthorizedSender : BOOLEAN, allowTextCommands : {TRUE},
   sessionKey : {RequesterKey}]
  \cup [body : {joinWords(<<COMMAND, LIST>>), joinWords(<<COMMAND, <<"z">>>>)},
        isAuthorizedSender : {TRUE}, allowTextCommands : BOOLEAN,
        sessionKey : {RequesterKey, <<" ">>}]

\* The runs of the requester when the command arrives: each child active,
\* the first one possibly ended ten minutes ago.
CommandRecords(i) ==
  {ChildRun(i)} \cup (IF i = 1 THEN {[ChildRun(i) EXCEPT !.endedAt = MinutesAgo(10)]} ELSE {})

\* The session entry of the i-th child: any for an active run, one with a
\* session id for an ended run.
CommandEntries(run, i) ==
  IF isActive(run) THEN SessionEntries(i)
  ELSE {entry \in SessionEntries(i) :
          entry # None /\ entry[1].sessionId = Some(SessionIdAt(i))}

\* The registries of n children.
RECURSIVE CommandRuns(_)
CommandRuns(n) ==
  IF n = 0 THEN {<<>>}
  ELSE {Append(runs, entry) : runs \in CommandRuns(n - 1), entry \in CommandRecords(n)}

(***************************************************************************)
(* One command from its arrival to its result.                             *)
(***************************************************************************)
InitCommand ==
  /\ registry \in UNION {CommandRuns(n) : n \in 0..MaxChildren}
  /\ store \in {st \in [SessionKeys -> UNION {SessionEntries(i) : i \in 1..MaxChildren}] :
                  \A i \in 1..MaxChildren :
                    IF i <= Len(registry)
                      THEN st[KeyAt(i)] \in CommandEntries(registry[i], i)
                      ELSE st[KeyAt(i)] = None}
  /\ now = NowMs
  /\ inv = [i \in Invs |-> IdleInvocation]
  /\ steerRestart = {}
  /\ phase = "start"
  /\ listing = <<>>
  /\ token = <<>>
  /\ resolution = NoResolution
  /\ builder = NoBuilder

\* The handler is called and runs to its first await or to its return.
Handle(i) ==
  /\ inv[i].pc = "idle"
  /\ \E command \in Commands, uuid \in UUIDs :
       LET out == handleSubagentsCommand(command, registry, store, now, uuid)
       IN  /\ inv' = [inv EXCEPT ![i] = out]
           /\ steerRestart' = markedForSteerRestart(steerRestart, out.calls)
  /\ UNCHANGED <<registry, now, store, resolverVars, builder>>

\* `steered ${formatRunLabel(resolved.entry)} (run ${runId.slice(0, 8)}).`
steeredReply(entry, runId) ==
  Reply("steered", "steered <label> (run <id8>).", <<formatRunLabel(entry), sliceTo(runId, 8)>>)

\* Mutant of dispatchedRunId: the response's run id is ignored.
dispatchedRunIdIgnoresResponse(idempotencyKey, response) == idempotencyKey

\* The run id after the dispatch: the response's if it has a non-empty
\* one, the idempotency key otherwise.
dispatchedRunId(idempotencyKey, response) ==
  IF response.runId # None /\ response.runId[1] # <<>>
    THEN response.runId[1]
    ELSE idempotencyKey

\* The call of replaceSubagentRunAfterSteer.
replaceCall(entry, runId) ==
  Call("replaceSubagentRunAfterSteer",
       [previousRunId |-> entry.runId, nextRunId |-> runId, fallback |-> entry])

\* The gateway method 'agent' returns: a steer replaces the run in the
\* registry and returns, a send goes on to wait for the run.
DispatchReturns(i) ==
  /\ inv[i].pc = "send_dispatch"
  /\ \E response \in DispatchResponses :
       LET runId == dispatchedRunId(inv[i].runId[1], response)
           entry == inv[i].resolved[1]
       IN  IF inv[i].steerRequested
             THEN /\ registry' =
                       replaceSubagentRunAfterSteer(registry, entry.runId, runId, entry, now)
                  /\ inv' = [inv EXCEPT
                               ![i].pc = "done",
                               ![i].runId = Some(runId),
                               ![i].response = Some(response),
                               ![i].calls = @ \o <<replaceCall(entry, runId)>>,
                               ![i].result = Result(Some(steeredReply(entry, runId)))]
             ELSE /\ registry' = registry
                  /\ inv' = [inv EXCEPT
                               ![i].pc = "send_wait",
                               ![i].runId = Some(runId),
                               ![i].response = Some(response),
                               ![i].calls = @ \o
                                 <<Call("agent.wait", [runId |-> runId, timeoutMs |-> 30000])>>]
  /\ UNCHANGED <<now, store, steerRestart, resolverVars, builder>>

\* Mutant of DispatchFails: the catch block takes the steer mark back.
DispatchFailsRollsBack(i) ==
  /\ inv[i].pc = "send_dispatch"
  /\ \E err \in BackendErrors :
       inv' = [inv EXCEPT
                 ![i].pc = "done",
                 ![i].thrown = Some(err),
                 ![i].result =
                   Result(Some(Reply("send failed", "send failed: ", messageText(err))))]
  /\ steerRestart' = steerRestart \ {inv[i].resolved[1].runId}
  /\ UNCHANGED <<registry, now, store, resolverVars, builder>>

\* The gateway method 'agent' fails: the catch block returns the reply.
DispatchFails(i) ==
  /\ inv[i].pc = "send_dispatch"
  /\ \E err \in BackendErrors :
       inv' = [inv EXCEPT
                 ![i].pc = "done",
                 ![i].thrown = Some(err),
                 ![i].result =
                   Result(Some(Reply("send failed", "send failed: ", messageText(err))))]
  /\ UNCHANGED <<registry, now, store, steerRestart, resolverVars, builder>>

\* Mutant of WaitReturns: after a wait that times out the handler waits for
\* the registry to show the run as ended.
WaitTimeoutPollsRegistry(i) ==
  /\ inv[i].pc = "send_wait"
  /\ \E wait \in {w \in WaitResponses : w.status = "timeout"} :
       inv' = [inv EXCEPT ![i].pc = "send_poll", ![i].wait = Some(wait)]
  /\ UNCHANGED <<registry, now, store, steerRestart, resolverVars, builder>>

\* Mutant of WaitReturns: a wait that times out marks the run ended.
WaitTimeoutEndsRun(i) ==
  /\ inv[i].pc = "send_wait"
  /\ \E wait \in {w \in WaitResponses : w.status = "timeout"} :
       inv' = [inv EXCEPT
                 ![i].pc = "done",
                 ![i].wait = Some(wait),
                 ![i].result =
                   Result(Some(Reply("still running", "Subagent still running (run <id8>).",
                                     sliceTo(inv[i].runId[1], 8))))]
  /\ registry' = [k \in 1..Len(registry) |->
                    IF registry[k].runId = inv[i].resolved[1].runId
                      THEN [registry[k] EXCEPT !.endedAt = now]
                      ELSE registry[k]]
  /\ UNCHANGED <<now, store, steerRestart, resolverVars, builder>>

\* 'agent.wait' returns.
WaitReturns(i) ==
  /\ inv[i].pc = "send_wait"
  /\ \E wait \in WaitResponses :
       LET id8 == sliceTo(inv[i].runId[1], 8)
       IN  inv' =
             IF wait.status = "timeout"
               THEN [inv EXCEPT
                       ![i].pc = "done",
                       ![i].wait = Some(wait),
                       ![i].result =
                         Result(Some(Reply("still running",
                                           "Subagent still running (run <id8>).", id8)))]
             ELSE IF wait.status = "error"
               THEN [inv EXCEPT
                       ![i].pc = "done",
                       ![i].wait = Some(wait),
                       ![i].result =
                         Result(Some(Reply("subagent error",
                                           "Subagent error: <error> (run <id8>).",
                                           <<IF wait.error # None THEN wait.error[1]
                                             ELSE <<"u", "n", "k", "n", "o", "w", "n">>,
                                             id8>>)))]
             ELSE [inv EXCEPT
                     ![i].pc = "send_history",
                     ![i].wait = Some(wait),
                     ![i].calls = @ \o
                       <<Call("chat.history",
                              [sessionKey |-> inv[i].resolved[1].childSessionKey,
                               limit |-> 50])>>]
  /\ UNCHANGED <<registry, now, store, steerRestart, resolverVars, builder>>

\* 'agent.wait' fails: the await throws out of the handler.
WaitFails(i) ==
  /\ inv[i].pc = "send_wait"
  /\ inv' = [inv EXCEPT ![i].pc = "threw"]
  /\ UNCHANGED <<registry, now, store, steerRestart, resolverVars, builder>>

\* 'chat.history' returns to send: the reply is the assistant text of the
\* last message that is not a tool message, or the acknowledgment.
SendHistoryReturns(i) ==
  /\ inv[i].pc = "send_history"
  /\ \E history \in Histories :
       LET filtered == stripToolMessages(history)
           replyText ==
             IF filtered # <<>> THEN extractAssistantText(filtered[Len(filtered)])
             ELSE None
       IN  inv' = [inv EXCEPT
                     ![i].pc = "done",
                     ![i].history = Some(history),
                     ![i].result =
                       Result(Some(
                         IF replyText # None
                           THEN Reply("assistant", "", replyText[1])
                           ELSE Reply("sent", "Sent to <label> (run <id8>).",
                                      <<formatRunLabel(inv[i].resolved[1]),
                                        sliceTo(inv[i].runId[1], 8)>>)))]
  /\ UNCHANGED <<registry, now, store, steerRestart, resolverVars, builder>>

\* 'chat.history' fails in send: the await throws out of the handler.
SendHistoryFails(i) ==
  /\ inv[i].pc = "send_history"
  /\ inv' = [inv EXCEPT ![i].pc = "threw"]
  /\ UNCHANGED <<registry, now, store, steerRestart, resolverVars, builder>>

\* 'chat.history' returns to log: the header and the rendered lines.
LogHistoryReturns(i) ==
  /\ inv[i].pc = "log_history"
  /\ \E history \in Histories :
       LET filtered == IF inv[i].includeTools THEN history ELSE stripToolMessages(history)
           lines == formatLogLines(filtered)
           label == formatRunLabel(inv[i].resolved[1])
       IN  inv' = [inv EXCEPT
                     ![i].pc = "done",
                     ![i].result =
                       Result(Some(
                         IF lines = <<>>
                           THEN Reply("log", "Subagent log: <label>\n(no messages)", label)
                           ELSE Reply("log", "Subagent log: <label>", <<label, lines>>)))]
  /\ UNCHANGED <<registry, now, store, steerRestart, resolverVars, builder>>

\* 'chat.history' fails in log: the await throws out of the handler.
LogHistoryFails(i) ==
  /\ inv[i].pc = "log_history"
  /\ inv' = [inv EXCEPT ![i].pc = "threw"]
  /\ UNCHANGED <<registry, now, store, steerRestart, resolverVars, builder>>

NextCommand ==
  \/ \E i \in Invs : Handle(i)
  \/ \E i \in Invs : StopUpdateSucceeds(i)
  \/ \E i \in Invs : StopUpdateFails(i)
  \/ \E i \in Invs : DispatchReturns(i)
  \/ \E i \in Invs : DispatchFails(i)
  \/ \E i \in Invs : WaitReturns(i)
  \/ \E i \in Invs : WaitFails(i)
  \/ \E i \in Invs : SendHistoryReturns(i)
  \/ \E i \in Invs : SendHistoryFails(i)
  \/ \E i \in Invs : LogHistoryReturns(i)
  \/ \E i \in Invs : LogHistoryFails(i)

SpecCommand == InitCommand /\ [][NextCommand]_vars

\* Every call the handler awaits is answered: updateSessionStore and each
\* gateway call eventually returns or fails.
CallsAreAnswered ==
  \A i \in Invs :
    /\ WF_vars(StopUpdateSucceeds(i) \/ StopUpdateFails(i))
    /\ WF_vars(DispatchReturns(i) \/ DispatchFails(i))
    /\ WF_vars(WaitReturns(i) \/ WaitFails(i))
    /\ WF_vars(SendHistoryReturns(i) \/ SendHistoryFails(i))
    /\ WF_vars(LogHistoryReturns(i) \/ LogHistoryFails(i))

FairSpecCommand == SpecCommand /\ CallsAreAnswered

(***************************************************************************)
(* Two commands of one requester in flight at once.  The handler runs      *)
(* without interruption from its call to its first await and between two   *)
(* awaits; at an await the other invocation and the runs themselves take   *)
(* their steps.                                                            *)
(***************************************************************************)
RaceInvs == {1, 2}

\* The commands that race: a steer, a send and a stop of the first line of
\* the list, and list.
RaceCommands ==
  [body : {joinWords(<<COMMAND, verb, <<"1">>, <<"h", "i">>>>) : verb \in {STEER, SEND}}
            \cup {joinWords(<<COMMAND, STOP, <<"1">>>>), joinWords(<<COMMAND, LIST>>)},
   isAuthorizedSender : {TRUE}, allowTextCommands : {TRUE}, sessionKey : {RequesterKey}]

\* The runs are active; the first child has a session entry with a session
\* id or none, the others have one.
InitRace ==
  /\ \E n \in 1..MaxChildren : registry = [i \in 1..n |-> ChildRun(i)]
  /\ store \in {st \in [SessionKeys -> UNION {SessionEntries(i) : i \in 1..MaxChildren}] :
                  \A i \in 1..MaxChildren :
                    IF i > Len(registry) THEN st[KeyAt(i)] = None
                    ELSE /\ i > 1 => st[KeyAt(i)] # None
                         /\ st[KeyAt(i)] # None =>
                              st[KeyAt(i)][1].sessionId = Some(SessionIdAt(i))}
  /\ now = NowMs
  /\ inv = [i \in RaceInvs |-> IdleInvocation]
  /\ steerRestart = {}
  /\ phase = "start"
  /\ listing = <<>>
  /\ token = <<>>
  /\ resolution = NoResolution
  /\ builder = NoBuilder

\* The handler is called for one of the two commands and runs to its first
\* await or to its return; each invocation draws its own UUID.
HandleRace(i) ==
  /\ inv[i].pc = "idle"
  /\ \E command \in RaceCommands :
       LET out == handleSubagentsCommand(command, registry, store, now, UuidAt(i))
       IN  /\ inv' = [inv EXCEPT ![i] = out]
           /\ steerRestart' = markedForSteerRestart(steerRestart, out.calls)
  /\ UNCHANGED <<registry, now, store, resolverVars, builder>>

NextRace ==
  \/ \E i \in RaceInvs : HandleRace(i)
  \/ \E i \in RaceInvs : StopUpdateSucceeds(i)
  \/ \E i \in RaceInvs : DispatchReturns(i)
  \/ \E i \in RaceInvs : DispatchFails(i)
  \/ \E i \in RaceInvs : WaitReturns(i)
  \/ \E i \in RaceInvs : SendHistoryReturns(i)
  \/ RunEnds(1)

SpecRace == InitRace /\ [][NextRace]_vars

(***************************************************************************)
(* Properties of stop.                                                     *)
(***************************************************************************)
\* The invocation has resolved its target to this snapshot record.
Targets(i, entry) == inv[i].action = "stop" /\ inv[i].resolved = Some(entry)

HasCall(i, op, args) ==
  \E n \in 1..Len(inv[i].calls) : inv[i].calls[n] = Call(op, args)

\* C8: a stop whose target resolves to a run that already has endedAt
\* returns the reply '<label> is already finished.' and has issued nothing
\* but the registry read: no abort, no queue clearing, no session-store load
\* or update, no stop-by-requester.
C8_StopOnEndedIsNoOp ==
  \A i \in Invs :
    inv[i].action = "stop" /\ inv[i].resolved # None /\ ~isActive(inv[i].resolved[1]) =>
      /\ inv[i].pc = "done"
      /\ inv[i].result =
           Result(Some(Reply("finished", " is already finished.", inv[i].resolved[1].label)))
      /\ inv[i].calls = <<Call("listSubagentRunsForRequester", <<RequesterKey>>)>>

\* C8 witness: a stop returned 'already finished' for an ended run whose
\* session has a backend session id that an abort would have addressed, and
\* the entry is not marked aborted.
C8_Witness ==
  \E i \in Invs :
    /\ inv[i].pc = "done"
    /\ inv[i].action = "stop"
    /\ inv[i].resolved # None
    /\ ~isActive(inv[i].resolved[1])
    /\ inv[i].result # None
    /\ inv[i].result[1].reply # None
    /\ inv[i].result[1].reply[1].kind = "finished"
    /\ LET entry == store[inv[i].resolved[1].childSessionKey]
       IN  entry # None /\ entry[1].sessionId # None /\ ~entry[1].abortedLastRun

\* C9: every stop that targeted an active run and is over, however it
\* ended, has issued the stop-by-requester with the target's
\* childSessionKey as requesterSessionKey.
C9_StopAlwaysCascades ==
  \A i \in Invs :
    /\ inv[i].action = "stop"
    /\ inv[i].pc \in {"done", "threw"}
    /\ inv[i].resolved # None
    /\ isActive(inv[i].resolved[1])
    => HasCall(i, "stopSubagentsForRequester", <<inv[i].resolved[1].childSessionKey>>)

\* C10: the step in which stop's session-store update is applied changes,
\* in the store as it was immediately before, only abortedLastRun and
\* updatedAt of the child's entry.
C10_StopWritesOnlyItsFields ==
  [][\A i \in Invs :
       inv[i].pc = "stop_update" /\ inv'[i].pc = "done" =>
         LET childKey == inv[i].resolved[1].childSessionKey
         IN  /\ store[childKey] # None
             /\ store' = [store EXCEPT ![childKey] =
                            Some([store[childKey][1] EXCEPT
                                    !.abortedLastRun = TRUE,
                                    !.updatedAt = inv[i].entry[1].updatedAt])]]_vars

\* The calls of an invocation with the given operation, in order.
CallsOf(i, op) ==
  LET IsOp(call) == call.op = op
  IN  SelectSeq(inv[i].calls, IsOp)

\* The invocation is a stop that went past the resolver and the endedAt
\* check with this active target.
StopsActive(i) ==
  inv[i].action = "stop" /\ inv[i].resolved # None /\ isActive(inv[i].resolved[1])

\* What stop issues for a target: the session id read from the target's
\* session entry, if the entry has one.
SessionIdOf(childKey) ==
  IF store[childKey] # None THEN store[childKey][1].sessionId ELSE None

StopOps ==
  {"listSubagentRunsForRequester", "loadSessionStore", "abortEmbeddedPiRun",
   "clearSessionQueues", "updateSessionStore", "stopSubagentsForRequester"}

\* The calls of a stop name nothing but the target.
StopNamesOnlyItsTarget(i) ==
  LET childKey == inv[i].resolved[1].childSessionKey
      sessionId == SessionIdOf(childKey)
  IN  /\ \A n \in 1..Len(inv[i].calls) : inv[i].calls[n].op \in StopOps
      /\ Len(CallsOf(i, "abortEmbeddedPiRun")) <= 1
      /\ \A n \in 1..Len(CallsOf(i, "abortEmbeddedPiRun")) :
           sessionId # None /\ CallsOf(i, "abortEmbeddedPiRun")[n].args = sessionId
      /\ \A n \in 1..Len(CallsOf(i, "clearSessionQueues")) :
           CallsOf(i, "clearSessionQueues")[n].args = <<childKey>> \o sessionId
      /\ \A n \in 1..Len(CallsOf(i, "loadSessionStore")) :
           CallsOf(i, "loadSessionStore")[n].args = <<childKey>>
      /\ \A n \in 1..Len(CallsOf(i, "updateSessionStore")) :
           CallsOf(i, "updateSessionStore")[n].args = <<childKey>>
      /\ \A n \in 1..Len(CallsOf(i, "stopSubagentsForRequester")) :
           CallsOf(i, "stopSubagentsForRequester")[n].args = <<childKey>>

\* A step of a stop invocation writes the session store at most at the
\* target's key, and leaves the registry alone.
StopWritesOnlyItsTarget(i) ==
  inv'[i] # inv[i] /\ inv'[i].action = "stop" =>
    /\ registry' = registry
    /\ \A key \in SessionKeys :
         store'[key] # store[key] =>
           inv'[i].resolved # None /\ key = inv'[i].resolved[1].childSessionKey

\* C11: a stop with a specific target issues at most one abort and only for
\* the session id of the target's session entry, clears queues only for the
\* target's childSessionKey and that session id, loads and updates only the
\* target's session entry, and calls stop-by-requester only with the
\* target's childSessionKey; no step of it writes another key of the store
\* or changes the registry.
C11_StopTouchesOnlyItsTarget ==
  /\ [](\A i \in Invs : StopsActive(i) => StopNamesOnlyItsTarget(i))
  /\ [][\A i \in Invs : StopWritesOnlyItsTarget(i)]_vars

\* C11 witness: a stop of the second child is over, having aborted that
\* child's session, while the first child is active with a session id of
\* its own and an entry that is not marked aborted.
C11_Witness ==
  \E i \in Invs :
    /\ inv[i].pc = "done"
    /\ StopsActive(i)
    /\ inv[i].resolved[1].childSessionKey = KeyAt(2)
    /\ Len(CallsOf(i, "abortEmbeddedPiRun")) = 1
    /\ store[KeyAt(2)] # None /\ store[KeyAt(2)][1].abortedLastRun
    /\ Len(registry) >= 2 /\ isActive(registry[1])
    /\ store[KeyAt(1)] # None
    /\ store[KeyAt(1)][1].sessionId = Some(SessionIdAt(1))
    /\ ~store[KeyAt(1)][1].abortedLastRun

\* C12: a stop whose target token is 'all' or '*' has returned after the
\* registry read and exactly one stop-by-requester call, made with the
\* invoking requester's session key: nothing was resolved, and no abort, no
\* queue clearing and no session-store load or update was issued.
C12_StopAllDelegates ==
  \A i \in Invs :
    inv[i].action = "stop" /\ inv[i].target \in {Some(<<"a", "l", "l">>), Some(<<"*">>)} =>
      /\ inv[i].pc = "done"
      /\ inv[i].resolved = None
      /\ inv[i].calls = <<Call("listSubagentRunsForRequester", <<RequesterKey>>),
                          Call("stopSubagentsForRequester", <<RequesterKey>>)>>

\* C12 witness: 'stop all' returned while two children were active, each
\* with a session that an abort would have addressed.
C12_Witness ==
  \E i \in Invs :
    /\ inv[i].action = "stop"
    /\ inv[i].target = Some(<<"a", "l", "l">>)
    /\ inv[i].pc = "done"
    /\ Len(registry) >= 2
    /\ \A k \in 1..2 :
         /\ isActive(registry[k])
         /\ store[KeyAt(k)] # None
         /\ store[KeyAt(k)][1].sessionId = Some(SessionIdAt(k))
         /\ ~store[KeyAt(k)][1].abortedLastRun

(***************************************************************************)
(* Properties of the whole command.                                        *)
(***************************************************************************)
\* The invocation was called with a command whose body starts with one of
\* the four prefixes, text commands allowed.
Handled(i) ==
  /\ inv[i].pc # "idle"
  /\ "command" \in DOMAIN inv[i]
  /\ inv[i].command.allowTextCommands
  /\ handledPrefixOf(inv[i].command.body) # None

Authorized(i) == Handled(i) /\ inv[i].command.isAuthorizedSender

\* The operations that act on a run, a session or the backend.
SideEffectOps ==
  {"abortEmbeddedPiRun", "clearSessionQueues", "markSubagentRunForSteerRestart",
   "replaceSubagentRunAfterSteer", "updateSessionStore", "stopSubagentsForRequester",
   "agent", "agent.wait", "chat.history"}

NoSideEffectCall(calls) == \A n \in 1..Len(calls) : calls[n].op \notin SideEffectOps

\* C13: a handled command from an unauthorized sender has returned
\* shouldContinue = false without a reply and without issuing any call (no
\* registry read, no session-store access, no abort, no queue clearing, no
\* backend call), whatever its verb and arguments; the step that handles it
\* changes neither the registry, nor the store, nor the steer marks.
C13_UnauthorizedIsSilent ==
  /\ [](\A i \in Invs :
          Handled(i) /\ ~inv[i].command.isAuthorizedSender =>
            /\ inv[i].pc = "done"
            /\ inv[i].result = Some([shouldContinue |-> FALSE, reply |-> None])
            /\ inv[i].calls = <<>>)
  /\ [][\A i \in Invs :
          inv'[i] # inv[i] /\ "command" \in DOMAIN inv'[i]
            /\ ~inv'[i].command.isAuthorizedSender =>
            registry' = registry /\ store' = store /\ steerRestart' = steerRestart]_vars

\* C13 witness: an unauthorized '/subagents steer 1 hi' returned while the
\* first run was active with a session an abort would have addressed.
C13_Witness ==
  \E i \in Invs :
    /\ Handled(i)
    /\ ~inv[i].command.isAuthorizedSender
    /\ inv[i].command.body = joinWords(<<COMMAND, STEER, <<"1">>, <<"h", "i">>>>)
    /\ inv[i].pc = "done"
    /\ Len(registry) >= 1 /\ isActive(registry[1])
    /\ store[KeyAt(1)] # None /\ store[KeyAt(1)][1].sessionId = Some(SessionIdAt(1))
    /\ steerRestart = {}

\* The usage replies of a verb.
UsageReplies(action, steerRequested) ==
  IF action = "stop"
    THEN {Reply("usage", "Usage: /subagents stop <id|#|all>", <<>>),
          Reply("usage", "Usage: /kill <id|#|all>", <<>>)}
  ELSE IF action = "info" THEN {Reply("usage", "Usage: /subagents info <id|#>", <<>>)}
  ELSE IF action = "log" THEN {Reply("usage", "Usage: /subagents log <id|#> [limit]", <<>>)}
  ELSE IF ~steerRequested
    THEN {Reply("usage", "Usage: /subagents send <id|#> <message>", <<>>)}
  ELSE {Reply("usage", "Usage: /subagents steer <id|#> <message>", <<>>),
        Reply("usage", "Usage: <prefix> <id|#> <message>", COMMAND_STEER),
        Reply("usage", "Usage: <prefix> <id|#> <message>", COMMAND_TELL)}

\* The tokens after the verb, as the handler split them.
RestTokens(record) == parseAction(record.handledPrefix[1], record.command.body).restTokens

\* A required argument is missing: the target, or the message of send.
MissingArgument(record) ==
  \/ RestTokens(record) = <<>>
  \/ record.action = "send" /\ Len(RestTokens(record)) < 2

\* The target is given to the resolver: it is there and the verb is not a
\* stop of 'all' or '*'.
ResolvesTarget(record) ==
  /\ ~MissingArgument(record)
  /\ ~(record.action = "stop" /\ RestTokens(record)[1] \in {ALL, STAR})

\* The step in which the handler is called issued nothing but the registry
\* read and changed nothing, and the handler has returned.
ReturnedWithoutEffect(i) ==
  /\ inv'[i].pc = "done"
  /\ inv'[i].calls = <<Call("listSubagentRunsForRequester", <<RequesterKey>>)>>
  /\ NoSideEffectCall(inv'[i].calls)
  /\ registry' = registry /\ store' = store /\ steerRestart' = steerRestart

C15_AuthorizedGetsReply ==
  \A i \in Invs :
    Authorized(i) /\ inv[i].pc = "done" =>
      inv[i].result # None /\ inv[i].result[1].reply # None

\* C16: no invocation ends with an exception thrown out of the handler.
C16_NoExceptionEscapes == \A i \in Invs : inv[i].pc # "threw"

\* The invocation is a steer that resolved an active run R.
SteersActive(i) ==
  /\ Authorized(i)
  /\ inv[i].action = "send"
  /\ inv[i].steerRequested
  /\ inv[i].resolved # None
  /\ isActive(inv[i].resolved[1])

\* The positions of the calls of an operation in the invocation's log.
PositionsOf(i, op) == {n \in 1..Len(inv[i].calls) : inv[i].calls[n].op = op}

\* The non-blank session id of the session entry of a key, if there is one.
KnownSessionId(childKey) ==
  IF store[childKey] # None /\ store[childKey][1].sessionId # None
       /\ trim(store[childKey][1].sessionId[1]) # <<>>
    THEN Some(trim(store[childKey][1].sessionId[1]))
    ELSE None

\* C17: in every steer of an active run R that has dispatched, the log
\* holds exactly one mark of R.runId, then the abort of R's session id (one
\* if a non-blank session id is known, none otherwise), then exactly one
\* queue clearing for the child key and that session id, and only then the
\* one dispatch; R is marked in the registry whenever the dispatch is out.
C17_SteerOrder ==
  \A i \in Invs :
    SteersActive(i) /\ PositionsOf(i, "agent") # {} =>
      LET R == inv[i].resolved[1]
          sessionId == KnownSessionId(R.childSessionKey)
      IN  /\ Cardinality(PositionsOf(i, "markSubagentRunForSteerRestart")) = 1
          /\ Cardinality(PositionsOf(i, "clearSessionQueues")) = 1
          /\ Cardinality(PositionsOf(i, "agent")) = 1
          /\ Cardinality(PositionsOf(i, "abortEmbeddedPiRun")) =
               (IF sessionId # None THEN 1 ELSE 0)
          /\ \A m \in PositionsOf(i, "markSubagentRunForSteerRestart") :
               /\ inv[i].calls[m].args = <<R.runId>>
               /\ \A a \in PositionsOf(i, "abortEmbeddedPiRun") :
                    m < a /\ inv[i].calls[a].args = sessionId
               /\ \A c \in PositionsOf(i, "clearSessionQueues") :
                    /\ m < c
                    /\ inv[i].calls[c].args = <<R.childSessionKey>> \o sessionId
                    /\ \A a \in PositionsOf(i, "abortEmbeddedPiRun") : a < c
                    /\ \A d \in PositionsOf(i, "agent") : c < d
          /\ R.runId \in steerRestart

\* C17 witness: a steer is waiting for its dispatch, the abort issued.
C17_Witness ==
  \E i \in Invs :
    /\ SteersActive(i)
    /\ inv[i].pc = "send_dispatch"
    /\ PositionsOf(i, "abortEmbeddedPiRun") # {}
    /\ PositionsOf(i, "agent") # {}

\* The run id a steer or send goes on with, from what the dispatch call
\* carried and what the backend answered.
NextRunIdOf(i) ==
  LET dispatched == CallsOf(i, "agent")[1].args
      response == inv[i].response[1]
  IN  IF response.runId # None /\ response.runId[1] # <<>>
        THEN response.runId[1]
        ELSE dispatched.idempotencyKey

\* C18: a steer whose dispatch succeeded has called the registry
\* replacement exactly once, with previousRunId = R.runId, nextRunId = the
\* run id of the response (the idempotency key when the response has none)
\* and fallback = R; the registry holds an active record with the new run
\* id and R's session key and label, and R's record is ended; the reply
\* names the first 8 characters of that run id; the handler has returned
\* and has issued no wait and no history call.
C18_SteerReplaces ==
  \A i \in Invs :
    SteersActive(i) /\ inv[i].response # None =>
      LET R == inv[i].resolved[1]
          nextRunId == NextRunIdOf(i)
      IN  /\ inv[i].pc = "done"
          /\ CallsOf(i, "replaceSubagentRunAfterSteer") =
               <<Call("replaceSubagentRunAfterSteer",
                      [previousRunId |-> R.runId, nextRunId |-> nextRunId, fallback |-> R])>>
          /\ \E k \in 1..Len(registry) :
               /\ registry[k].runId = nextRunId
               /\ isActive(registry[k])
               /\ registry[k].childSessionKey = R.childSessionKey
               /\ registry[k].label = R.label
          /\ \A k \in 1..Len(registry) : registry[k].runId = R.runId => ~isActive(registry[k])
          /\ inv[i].result =
               Result(Some(Reply("steered", "steered <label> (run <id8>).",
                                 <<R.label, SubSeq(nextRunId, 1, 8)>>)))
          /\ PositionsOf(i, "agent.wait") = {}
          /\ PositionsOf(i, "chat.history") = {}

\* C18 witness: a steer returned with the run id the backend assigned, which
\* is longer than the 8 characters the reply shows.
C18_Witness ==
  \E i \in Invs :
    /\ SteersActive(i)
    /\ inv[i].pc = "done"
    /\ inv[i].response = Some([runId |-> Some(BackendRunId)])
    /\ inv[i].runId = Some(BackendRunId)
    /\ Len(BackendRunId) > 8
    /\ \E k \in 1..Len(registry) : registry[k].runId = BackendRunId

\* The invocation is a steer whose dispatch failed.
SteerFailed(i) ==
  /\ SteersActive(i)
  /\ inv[i].pc = "done"
  /\ inv[i].result[1].reply # None
  /\ inv[i].result[1].reply[1].kind = "send failed"

\* C19: when the dispatch of a steer fails, the reply is 'send failed: '
\* followed by the message of what was thrown ('error' when it is neither
\* an Error nor a string); the registry replacement is
\* not called; the step changes neither the registry nor the marks nor the
\* store and issues no call, so R stays marked for steer-restart, its abort
\* and queue clearing stay issued, and the registry holds no successor.
C19_SteerFailureIsNotRolledBack ==
  /\ [](\A i \in Invs :
          SteerFailed(i) =>
            /\ inv[i].thrown # None
            /\ inv[i].result[1].reply[1].text = "send failed: "
            /\ inv[i].result[1].reply[1].arg =
                 (IF inv[i].thrown[1].type = "other" THEN <<"e", "r", "r", "o", "r">>
                  ELSE inv[i].thrown[1].message)
            /\ PositionsOf(i, "replaceSubagentRunAfterSteer") = {}
            /\ inv[i].resolved[1].runId \in steerRestart
            /\ PositionsOf(i, "clearSessionQueues") # {}
            /\ \E k \in 1..Len(registry) : registry[k] = inv[i].resolved[1]
            /\ \A k \in 1..Len(registry) : registry[k].runId \in {RunIdAt(n) : n \in 1..MaxChildren})
  /\ [][\A i \in Invs :
          inv[i].pc = "send_dispatch" /\ inv[i].steerRequested /\ inv'[i].response = None
            /\ inv'[i].pc = "done" =>
              /\ registry' = registry /\ steerRestart' = steerRestart /\ store' = store
              /\ inv'[i].calls = inv[i].calls]_vars

\* C19 witness: a steer failed with the message of the Error thrown, after
\* the abort of the run's session was issued.
C19_Witness ==
  \E i \in Invs :
    /\ SteerFailed(i)
    /\ inv[i].result[1].reply[1].arg = <<"d", "o", "w", "n">>
    /\ PositionsOf(i, "abortEmbeddedPiRun") # {}

\* The invocation is a plain send.
PlainSend(i) == Authorized(i) /\ inv[i].action = "send" /\ ~inv[i].steerRequested

\* C20: a plain send never issues a steer mark, an abort, a queue clearing
\* or a registry replacement; every step of it leaves the registry and the
\* steer marks as they were; its dispatch, if it makes one, carries the
\* message, the target's childSessionKey, deliver = false, the subagent lane
\* and the idempotency key generated in this invocation.
C20_SendLeavesRegistryAlone ==
  /\ [](\A i \in Invs :
          PlainSend(i) =>
            /\ \A op \in {"markSubagentRunForSteerRestart", "abortEmbeddedPiRun",
                          "clearSessionQueues", "replaceSubagentRunAfterSteer"} :
                 PositionsOf(i, op) = {}
            /\ Cardinality(PositionsOf(i, "agent")) <= 1
            /\ \A d \in PositionsOf(i, "agent") :
                 LET args == inv[i].calls[d].args
                 IN  /\ args.deliver = FALSE
                     /\ args.lane = "AGENT_LANE_SUBAGENT"
                     /\ args.sessionKey = inv[i].resolved[1].childSessionKey
                     /\ args.idempotencyKey \in UUIDs
                     /\ args.message = trim(joinWords(Tail(RestTokens(inv[i])))))
  /\ [][\A i \in Invs :
          inv'[i] # inv[i] /\ "command" \in DOMAIN inv'[i] /\ inv'[i].action = "send"
            /\ ~inv'[i].steerRequested =>
              registry' = registry /\ steerRestart' = steerRestart]_vars

\* C20 witness: a plain send to a run whose session has an id went through
\* dispatch, wait and history and returned.
C20_Witness ==
  \E i \in Invs :
    /\ PlainSend(i)
    /\ inv[i].pc = "done"
    /\ PositionsOf(i, "chat.history") # {}
    /\ inv[i].resolved # None
    /\ KnownSessionId(inv[i].resolved[1].childSessionKey) # None

\* The reply of an invocation that returned one.
ReplyOf(i) == inv[i].result[1].reply[1]

\* The invocation is a plain send whose wait has returned this status.
SendWaited(i, status) ==
  PlainSend(i) /\ inv[i].wait # None /\ inv[i].wait[1].status = status

\* C21: a plain send whose wait returned 'timeout' has replied 'still
\* running' with the first 8 characters of the dispatched run id; it has
\* issued no abort, no queue clearing, no steer mark, no registry
\* replacement, no store write, no stop-by-requester and no history fetch;
\* the step in which the wait returns changes neither the registry nor the
\* store nor the steer marks, so the target's record is as it was resolved.
C21_TimeoutLeavesRunAlone ==
  /\ [](\A i \in Invs :
          SendWaited(i, "timeout") =>
            /\ inv[i].pc = "done"
            /\ inv[i].result =
                 Result(Some(Reply("still running", "Subagent still running (run <id8>).",
                                   SubSeq(NextRunIdOf(i), 1, 8))))
            /\ \A op \in SideEffectOps \ {"agent", "agent.wait"} : PositionsOf(i, op) = {}
            /\ \E k \in 1..Len(registry) :
                 registry[k] = inv[i].resolved[1] /\ isActive(registry[k]))
  /\ [][\A i \in Invs :
          inv[i].pc = "send_wait" /\ inv'[i].wait # None
            /\ inv'[i].wait[1].status = "timeout" =>
              /\ registry' = registry /\ store' = store /\ steerRestart' = steerRestart
              /\ inv'[i].calls = inv[i].calls]_vars

\* C21 witness: a send whose dispatch was answered with the backend's run
\* id timed out in its wait, the target's session having an id an abort
\* would have addressed.
C21_Witness ==
  \E i \in Invs :
    /\ SendWaited(i, "timeout")
    /\ inv[i].pc = "done"
    /\ inv[i].runId = Some(BackendRunId)
    /\ KnownSessionId(inv[i].resolved[1].childSessionKey) # None

\* The messages of a transcript, tool messages excluded, that carry
\* assistant text.
AssistantMessages(history) ==
  LET HasAssistantText(msg) == extractAssistantText(msg) # None
  IN  SelectSeq(stripToolMessages(history), HasAssistantText)

\* C22: a plain send whose wait reported neither timeout nor error and
\* whose history fetch returned has replied with the text of the last
\* assistant message of that history, tool messages excluded, and with the
\* acknowledgment 'Sent to <label> (run <id8>).' only if the history holds no
\* assistant message.
C22_SendRepliesLastAssistantMessage ==
  \A i \in Invs :
    PlainSend(i) /\ inv[i].history # None =>
      LET assistant == AssistantMessages(inv[i].history[1])
      IN  /\ inv[i].pc = "done"
          /\ inv[i].result # None /\ inv[i].result[1].reply # None
          /\ IF assistant # <<>>
               THEN ReplyOf(i) =
                      Reply("assistant", "", extractAssistantText(assistant[Len(assistant)])[1])
               ELSE ReplyOf(i) =
                      Reply("sent", "Sent to <label> (run <id8>).",
                            <<inv[i].resolved[1].label, SubSeq(NextRunIdOf(i), 1, 8)>>)

\* The invocation is a send or a steer that resolved a run with endedAt.
SendsToEnded(i) ==
  /\ Authorized(i)
  /\ inv[i].action = "send"
  /\ inv[i].resolved # None
  /\ ~isActive(inv[i].resolved[1])

\* C23: a send or steer whose target resolves to a run that has endedAt has
\* returned '<label> is already finished.' after the registry read alone: no
\* steer mark, no abort, no queue clearing, no dispatch, no registry
\* replacement; the run is not marked for steer-restart and the registry is
\* as the command found it.
C23_SendToEndedIsNoOp ==
  /\ [](\A i \in Invs :
          SendsToEnded(i) =>
            /\ inv[i].pc = "done"
            /\ inv[i].result =
                 Result(Some(Reply("finished", " is already finished.",
                                   inv[i].resolved[1].label)))
            /\ inv[i].calls = <<Call("listSubagentRunsForRequester", <<RequesterKey>>)>>
            /\ inv[i].resolved[1].runId \notin steerRestart)
  /\ [][\A i \in Invs :
          inv'[i] # inv[i] /\ "command" \in DOMAIN inv'[i] /\ inv'[i].action = "send"
            /\ inv'[i].resolved # None /\ ~isActive(inv'[i].resolved[1]) =>
              registry' = registry /\ store' = store /\ steerRestart' = steerRestart]_vars

\* C23 witness: a steer of the first run, ended ten minutes ago, returned
\* 'already finished' while the run's session had an id an abort would have
\* addressed.
C23_Witness ==
  \E i \in Invs :
    /\ SendsToEnded(i)
    /\ inv[i].steerRequested
    /\ inv[i].pc = "done"
    /\ inv[i].resolved[1].runId = RunIdAt(1)
    /\ KnownSessionId(KeyAt(1)) # None

\* The limit argument of a log command: the first all-digit token after the
\* target, clamped to [1, 200], or 20 when there is none.
LimitArgument(restTokens) ==
  LET limits == SelectSeq(Tail(restTokens), AllDigits)
      parsed == parseInt(limits[1])
  IN  IF limits = <<>> THEN 20
      ELSE IF parsed < 1 THEN 1
      ELSE IF parsed > 200 THEN 200
      ELSE parsed

\* C26: the limit a log command sends with its history request is 20 when
\* no limit argument follows the target, and otherwise that argument clamped
\* to [1, 200]; the target token, all digits or not, has no part in it.
C26_LogLimitIgnoresTarget ==
  \A i \in Invs :
    Authorized(i) /\ inv[i].action = "log" =>
      \A h \in PositionsOf(i, "chat.history") :
        inv[i].calls[h].args.limit = LimitArgument(RestTokens(inv[i]))

\* The operations that only read: the registry and the session store.
ReadOps == {"listSubagentRunsForRequester", "loadSessionStore"}

\* The report info returns for a run.
InfoReport(run) ==
  Reply("info", "Subagent info",
        <<run.runId, run.childSessionKey,
          IF SessionIdOf(run.childSessionKey) # None
            THEN SessionIdOf(run.childSessionKey)[1]
            ELSE <<"n", "/", "a">>>>)

\* C27: list and info have returned after reading the registry and the
\* session store only: no backend call, no abort, no queue clearing, no
\* store write, no steer mark, no registry replacement; the step that
\* handles them changes neither the registry nor the store nor the steer
\* marks; and info replies with the report of the run the resolver returns
\* for its target, whether that run is active or ended and whether it has a
\* session entry or not.
C27_ListAndInfoReadOnly ==
  /\ [](\A i \in Invs :
          Authorized(i) /\ inv[i].action \in {"list", "info"} =>
            /\ inv[i].pc = "done"
            /\ \A n \in 1..Len(inv[i].calls) : inv[i].calls[n].op \in ReadOps)
  /\ [][\A i \in Invs :
          /\ inv[i].pc = "idle" /\ inv'[i].pc # "idle"
          /\ "command" \in DOMAIN inv'[i]
          /\ inv'[i].action \in {"list", "info"}
          => /\ registry' = registry /\ store' = store /\ steerRestart' = steerRestart
             /\ inv'[i].action = "info" /\ inv'[i].target # None =>
                  LET resolved == resolveSubagentTarget(registry, inv'[i].target[1], now)
                  IN  resolved.entry # None =>
                        inv'[i].result = Result(Some(InfoReport(resolved.entry[1])))]_vars

\* C27 witness: info reported a run that ended ten minutes ago.
C27_Witness ==
  \E i \in Invs :
    /\ Authorized(i)
    /\ inv[i].action = "info"
    /\ inv[i].pc = "done"
    /\ inv[i].resolved # None
    /\ ~isActive(inv[i].resolved[1])
    /\ ReplyOf(i).kind = "info"
    /\ ReplyOf(i).arg[1] = inv[i].resolved[1].runId

\* The three ways of writing a stop of a target.
StopBodies(target) ==
  {joinWords(<<COMMAND_KILL, target>>), joinWords(<<COMMAND, KILL, target>>),
   joinWords(<<COMMAND, STOP, target>>)}

\* C30: whichever of '/kill <target>', '/subagents kill <target>' and
\* '/subagents stop <target>' a stop was written as, the handler called on
\* the other two, in the same registry and store, issues the same calls in
\* the same order, keeps the same target, resolved run and session entry,
\* suspends or returns at the same place and returns the same result.
C30_KillIsStop ==
  [][\A i \in Invs :
       /\ inv[i].pc = "idle" /\ inv'[i].pc # "idle"
       /\ "command" \in DOMAIN inv'[i]
       /\ inv'[i].action = "stop"
       /\ inv'[i].target # None
       => \A body \in StopBodies(inv'[i].target[1]) :
            LET out == handleSubagentsCommand([inv'[i].command EXCEPT !.body = body],
                                              registry, store, now, UuidAt(1))
            IN  /\ out.action = "stop"
                /\ out.target = inv'[i].target
                /\ out.pc = inv'[i].pc
                /\ out.calls = inv'[i].calls
                /\ out.resolved = inv'[i].resolved
                /\ out.entry = inv'[i].entry
                /\ out.result = inv'[i].result]_vars

\* C30 witness: '/kill 1' stopped the first run, aborting its session, and
\* went through the store update and the cascade.
C30_Witness ==
  \E i \in Invs :
    /\ Authorized(i)
    /\ inv[i].command.body = joinWords(<<COMMAND_KILL, <<"1">>>>)
    /\ inv[i].action = "stop"
    /\ inv[i].pc = "done"
    /\ PositionsOf(i, "abortEmbeddedPiRun") # {}
    /\ PositionsOf(i, "updateSessionStore") # {}
    /\ PositionsOf(i, "stopSubagentsForRequester") # {}

(***************************************************************************)
(* Properties of commands in flight at once.                               *)
(***************************************************************************)
\* The registry holds the run the invocation resolved, by run id, and the
\* run has no endedAt.
TargetActiveNow(i) ==
  \E k \in 1..Len(registry) :
    registry[k].runId = inv[i].resolved[1].runId /\ isActive(registry[k])

\* The operations that change a run, a session or the registry.
MutatingOps ==
  {"abortEmbeddedPiRun", "clearSessionQueues", "markSubagentRunForSteerRestart",
   "updateSessionStore", "agent", "replaceSubagentRunAfterSteer"}

\* The step is the one in which the handler is called and it issues a
\* mutating call before its first await.
MutatesAtOnce(i) ==
  /\ inv[i].pc = "idle" /\ inv'[i].pc # "idle"
  /\ \E n \in 1..Len(inv'[i].calls) : inv'[i].calls[n].op \in MutatingOps

\* The step is one in which the invocation, back from an await, writes the
\* store (stop) or replaces the run in the registry (steer).
MutatesAfterAwait(i) ==
  \/ inv[i].pc = "stop_update" /\ inv'[i].pc = "done"
  \/ inv[i].pc = "send_dispatch" /\ inv[i].steerRequested /\ inv'[i].response # None

\* C24: every mutating action is taken on a target that has no endedAt in
\* the registry at that moment: the calls issued when the handler is called
\* address a run the registry holds as active, and when the run has ended or
\* was superseded while the invocation was suspended, the store write of
\* stop and the registry replacement of steer are not performed and the
\* invocation returns the 'already finished' reply.
C24_MutationsRecheckEndedAt ==
  [][\A i \in RaceInvs :
       /\ MutatesAtOnce(i) =>
            /\ inv'[i].resolved # None
            /\ \E k \in 1..Len(registry) :
                 registry[k] = inv'[i].resolved[1] /\ isActive(registry[k])
       /\ MutatesAfterAwait(i) /\ ~TargetActiveNow(i) =>
            /\ registry' = registry
            /\ store' = store
            /\ inv'[i].result = Result(Some(alreadyFinishedReply(inv[i].resolved[1])))]_vars

\* The invocation is a steer whose dispatch succeeded.
Steered(i) ==
  /\ inv[i].pc = "done"
  /\ "command" \in DOMAIN inv[i]
  /\ inv[i].action = "send"
  /\ inv[i].steerRequested
  /\ inv[i].response # None

\* C25: the registry never holds two active records with different run ids
\* and the same childSessionKey, and for every steer whose dispatch
\* succeeded the run it resolved is ended in the registry.
C25_OneActiveRunPerSession ==
  /\ \A j, k \in 1..Len(registry) :
       /\ registry[j].runId # registry[k].runId
       /\ registry[j].childSessionKey = registry[k].childSessionKey
       => ~(isActive(registry[j]) /\ isActive(registry[k]))
  /\ \A i \in RaceInvs : Steered(i) => ~TargetActiveNow(i)

\* The invocation is a stop: it has a target and has started.
IsStop(record) == record.pc # "idle" /\ record.action = "stop"

IsList(record) == record.pc # "idle" /\ record.action = "list"

\* The store paths of the model's session keys.
StorePaths == {storePathOf(key) : key \in SessionKeys}

\* The loads of the store at a path among the calls.
LoadsOfPath(calls, storePath) ==
  {n \in 1..Len(calls) :
     calls[n].op = "loadSessionStore" /\ storePathOf(calls[n].args[1]) = storePath}

\* The lines of a list reply.
LinesOf(record) == record.result[1].reply[1].arg

\* C28: a list invocation reads the registry once, as its first call, and
\* loads the store of a path exactly once if a line of its reply belongs to
\* that path, however many do, and not at all otherwise, whatever the other
\* invocation has loaded before; its lines are the active and recently ended
\* records of the registry as it is when the list is handled, each with the
\* session entry the store holds at that moment.
C28_ListLoadsOncePerInvocation ==
  /\ [](\A i \in RaceInvs :
          IsList(inv[i]) =>
            /\ inv[i].pc = "done"
            /\ PositionsOf(i, "listSubagentRunsForRequester") = {1}
            /\ \A storePath \in StorePaths :
                 Cardinality(LoadsOfPath(inv[i].calls, storePath)) =
                   (IF \E n \in 1..Len(LinesOf(inv[i])) :
                         storePathOf(LinesOf(inv[i])[n].run.childSessionKey) = storePath
                      THEN 1 ELSE 0))
  /\ [][\A i \in RaceInvs :
          inv[i].pc = "idle" /\ IsList(inv'[i]) =>
            LET lines == LinesOf(inv'[i])
            IN  /\ \A n \in 1..Len(lines) :
                     /\ \E k \in 1..Len(registry) : registry[k] = lines[n].run
                     /\ lines[n].sessionEntry = store[lines[n].run.childSessionKey]
                /\ \A k \in 1..Len(registry) :
                     ~IsOld(registry[k]) => \E n \in 1..Len(lines) : lines[n].run = registry[k]]_vars

\* C28 witness: a list of two runs that share a store path loaded the store
\* once, after a stop of the other invocation wrote the first run's entry
\* and after the first run ended: the list shows the entry as written and
\* the run as ended.
C28_Witness ==
  \E i, j \in RaceInvs :
    /\ IsList(inv[i])
    /\ IsStop(inv[j]) /\ inv[j].pc = "done"
    /\ Len(LinesOf(inv[i])) = 2
    /\ Cardinality(PositionsOf(i, "loadSessionStore")) = 1
    /\ \E n \in 1..2 :
         /\ LinesOf(inv[i])[n].run.runId = RunIdAt(1)
         /\ ~isActive(LinesOf(inv[i])[n].run)
         /\ LinesOf(inv[i])[n].sessionEntry # None
         /\ LinesOf(inv[i])[n].sessionEntry[1].abortedLastRun

(***************************************************************************)
(* Termination, ownership and the command surface.                         *)
(***************************************************************************)
\* The invocation is over: it returned a result, returned null, or an
\* awaited call rejected and the rejection left the handler.
Ended(i) == inv[i].pc \in {"done", "declined", "threw"}

\* C31: when every awaited call is answered, every invocation that was
\* called ends, with no step of the registry or of the store by anyone
\* else; and a plain send whose wait is pending is over as soon as the wait
\* reports 'timeout', with the 'still running' reply.
C31_EveryInvocationEnds ==
  /\ \A i \in Invs : (inv[i].pc # "idle") ~> Ended(i)
  /\ [](\A i \in Invs :
          SendWaited(i, "timeout") =>
            inv[i].pc = "done" /\ ReplyOf(i).kind = "still running")

\* C31 witness: a plain send was answered 'timeout' by its wait and has
\* returned while its target is still active in the registry.
C31_Witness ==
  \E i \in Invs :
    /\ SendWaited(i, "timeout")
    /\ Ended(i)
    /\ ReplyOf(i).kind = "still running"
    /\ \E k \in 1..Len(registry) :
         registry[k].runId = inv[i].resolved[1].runId /\ isActive(registry[k])

\* The registry holds a record with the run id and the session key of this
\* run.
Owned(run) ==
  \E k \in 1..Len(registry) :
    registry[k].runId = run.runId /\ registry[k].childSessionKey = run.childSessionKey

\* The session ids an abort for the run's session may carry: the one of its
\* session entry, as it is or trimmed.
SessionIdsOf(run) ==
  IF SessionIdOf(run.childSessionKey) = None THEN {}
  ELSE {SessionIdOf(run.childSessionKey), Some(trim(SessionIdOf(run.childSessionKey)[1]))}

\* The call names this run and nothing else.
CallNames(call, run) ==
  CASE call.op = "abortEmbeddedPiRun" -> call.args \in SessionIdsOf(run)
    [] call.op = "clearSessionQueues" -> call.args[1] = run.childSessionKey
    [] call.op = "markSubagentRunForSteerRestart" -> call.args = <<run.runId>>
    [] call.op = "updateSessionStore" -> call.args = <<run.childSessionKey>>
    [] call.op = "agent" -> call.args.sessionKey = run.childSessionKey
    [] call.op = "replaceSubagentRunAfterSteer" ->
         call.args.previousRunId = run.runId /\ call.args.fallback = run
    [] OTHER -> TRUE

\* C32: every abort, queue clearing, steer mark, dispatch, registry
\* replacement and session-store update an invocation issues names the run
\* it resolved, and that run was a record of the registry read for the
\* requester when the command was handled; the store is written only at the
\* session key of a record of the registry; a stop-by-requester is keyed by
\* the requester's session key or by the stopped run's.
C32_ActsOnlyOnSnapshotRuns ==
  /\ [](\A i \in Invs :
          Authorized(i) =>
            \A n \in 1..Len(inv[i].calls) :
              /\ inv[i].calls[n].op \in MutatingOps =>
                   /\ inv[i].resolved # None
                   /\ Owned(inv[i].resolved[1])
                   /\ CallNames(inv[i].calls[n], inv[i].resolved[1])
              /\ inv[i].calls[n].op = "stopSubagentsForRequester" =>
                   inv[i].calls[n].args \in
                     {<<RequesterKey>>}
                       \cup (IF inv[i].resolved # None
                               THEN {<<inv[i].resolved[1].childSessionKey>>} ELSE {}))
  /\ [][/\ \A i \in Invs :
            inv[i].pc = "idle" /\ inv'[i].pc # "idle" /\ inv'[i].resolved # None =>
              /\ inv'[i].calls[1] = Call("listSubagentRunsForRequester", <<RequesterKey>>)
              /\ \E k \in 1..Len(registry) : registry[k] = inv'[i].resolved[1]
       /\ \A key \in SessionKeys :
            store'[key] # store[key] =>
              \E k \in 1..Len(registry) : registry[k].childSessionKey = key]_vars

\* C32 witness: a steer of the second of two runs went through: its mark,
\* abort, dispatch and replacement name that run, while the first run and
\* its session, which has an id, were left alone.
C32_Witness ==
  \E i \in Invs :
    /\ SteersActive(i)
    /\ inv[i].pc = "done"
    /\ inv[i].resolved[1].runId = RunIdAt(2)
    /\ PositionsOf(i, "abortEmbeddedPiRun") # {}
    /\ PositionsOf(i, "replaceSubagentRunAfterSteer") # {}
    /\ KnownSessionId(KeyAt(1)) # None
    /\ RunIdAt(1) \notin steerRestart

\* The first whitespace-delimited word of the command body.
FirstWord(body) == IF splitWords(body) = <<>> THEN <<>> ELSE splitWords(body)[1]

\* C33: a command whose first word is not exactly '/subagents', '/kill',
\* '/steer' or '/tell' is declined: the handler returns null, having read
\* no registry and made no call.
C33_ExactFirstWordOnly ==
  \A i \in Invs :
    /\ inv[i].pc # "idle"
    /\ "command" \in DOMAIN inv[i]
    /\ FirstWord(inv[i].command.body) \notin {COMMAND, COMMAND_KILL, COMMAND_STEER, COMMAND_TELL}
    => /\ inv[i].pc = "declined"
       /\ inv[i].calls = <<>>
       /\ inv[i].result = None

\* The three ways of writing a steer with these arguments.
SteerBodies(restTokens) ==
  {joinWords(<<COMMAND_TELL>> \o restTokens), joinWords(<<COMMAND_STEER>> \o restTokens),
   joinWords(<<COMMAND, STEER>> \o restTokens)}

\* The reply is a usage string.
IsUsage(result) == result # None /\ result[1].reply # None /\ result[1].reply[1].kind = "usage"

\* C34: whichever of '/tell', '/steer' and '/subagents steer' a steer was
\* written as, the handler called on the other two with the same arguments,
\* in the same registry and store and with the same generated key, is left
\* with the same locals: the same calls in the same order, the same target,
\* resolved run, message and place of suspension or return, and the same
\* result, unless the result is the usage string of a missing argument.
C34_TellIsSteer ==
  [][\A i \in Invs :
       /\ inv[i].pc = "idle" /\ inv'[i].pc # "idle"
       /\ "command" \in DOMAIN inv'[i]
       /\ inv'[i].action = "send"
       /\ inv'[i].steerRequested
       => LET restTokens ==
                parseAction(inv'[i].handledPrefix[1], inv'[i].command.body).restTokens
          IN  \A body \in SteerBodies(restTokens) :
                \E uuid \in UUIDs :
                  LET out == handleSubagentsCommand([inv'[i].command EXCEPT !.body = body],
                                                    registry, store, now, uuid)
                      same == [out EXCEPT !.command = inv'[i].command,
                                          !.handledPrefix = inv'[i].handledPrefix]
                  IN  IF IsUsage(inv'[i].result)
                        THEN /\ IsUsage(out.result)
                             /\ [same EXCEPT !.result = inv'[i].result] = inv'[i]
                        ELSE same = inv'[i]]_vars

\* C34 witness: '/tell 1 hi' steered the first run: it was marked, aborted,
\* dispatched to and replaced in the registry.
C34_Witness ==
  \E i \in Invs :
    /\ SteersActive(i)
    /\ inv[i].command.body = joinWords(<<COMMAND_TELL, <<"1">>, <<"h", "i">>>>)
    /\ inv[i].pc = "done"
    /\ ReplyOf(i).kind = "steered"
    /\ PositionsOf(i, "abortEmbeddedPiRun") # {}
    /\ PositionsOf(i, "replaceSubagentRunAfterSteer") # {}

\* The records of the registry with this session key.
RecordsOfKey(key) == {k \in 1..Len(registry) : registry[k].childSessionKey = key}

\* C35: when the snapshot holds ended records and one active record of the
\* same childSessionKey, in whatever order, resolving that key returns the
\* active record.
C35_KeyResolvesToActiveRecord ==
  /\ phase = "resolved"
  /\ IsKeyToken(trim(token))
  /\ Cardinality({k \in RecordsOfKey(trim(token)) : isActive(registry[k])}) = 1
  /\ \E k \in RecordsOfKey(trim(token)) : ~isActive(registry[k])
  => /\ resolution.entry # None
     /\ isActive(resolution.entry[1])

(***************************************************************************)
(* The config builder: its handlers, as functions of the element and its   *)
(* window, and the events that call them.                                  *)
(***************************************************************************)
\* The bound of the model: the clipboard writes in flight at once.
MaxWrites == 2

\* The variables of the subagent commands, which the builder leaves alone.
subagentVars == <<registry, now, store, inv, steerRestart, phase, listing, token, resolution>>

\* handleHashChange()
handleHashChange(b) ==
  LET next == parseModeFromHash(b.hash)
  IN  IF next = b.mode THEN b
      ELSE [b EXCEPT !.mode = next,
                     !.wizardStepIndex = IF next # "wizard" THEN 0 ELSE @]

\* navigateMode(mode): assigning another hash queues a hashchange event;
\* the timer of focusWizardStep moves the focus only.
navigateMode(b, mode) ==
  [b EXCEPT !.mode = mode,
            !.hash = modeToHash(mode),
            !.hashchange = @ \/ b.hash # modeToHash(mode)]

\* Mutant of setWizardStep: the index is taken as it comes.
setWizardStepUnclamped(b, index) == [b EXCEPT !.wizardStepIndex = index]

\* setWizardStep(index)
setWizardStep(b, index) ==
  LET upper == IF WIZARD_STEPS_LENGTH - 1 < index THEN WIZARD_STEPS_LENGTH - 1 ELSE index
      clamped == IF upper < 0 THEN 0 ELSE upper
  IN  IF clamped = b.wizardStepIndex THEN b
      ELSE [b EXCEPT !.wizardStepIndex = clamped]

\* Mutant of saveConfig: the draft is not written to the storage.
saveConfigUnpersisted(b, next) ==
  [b EXCEPT !.config = next, !.validation = validateConfigDraft(next)]

\* saveConfig(next), persistDraft(next) included
saveConfig(b, next) ==
  [b EXCEPT !.config = next, !.validation = validateConfigDraft(next), !.persisted = next]

\* setFieldError(path, message)
setFieldError(b, path, message) == [b EXCEPT !.fieldErrors[path] = Some(message)]

\* clearFieldError(path)
clearFieldError(b, path) == [b EXCEPT !.fieldErrors[path] = None]

\* clearField(path)
clearField(b, path) == saveConfig(clearFieldError(b, path), clearFieldValue(b.config, path))

\* Mutant of setField: the field error of the path is kept.
setFieldKeepsError(b, path, value) == saveConfig(b, setFieldValue(b.config, path, value))

\* setField(path, value)
setField(b, path, value) ==
  saveConfig(clearFieldError(b, path), setFieldValue(b.config, path, value))

\* resetAllFields()
resetAllFields(b) ==
  saveConfig([b EXCEPT !.fieldErrors = [path \in Paths |-> None]], resetDraft)

\* window.setTimeout: the id of the new timer, one no pending timer has.
newTimerId(timers) == CHOOSE id \in 1..(Cardinality(timers) + 1) : \A t \in timers : t.id # id

\* copyPreview(text) from the point the clipboard write has settled.
copyPreviewSettled(b, written) ==
  LET kept == {t \in b.timers : b.copyResetTimer = None \/ t.id # b.copyResetTimer[1]}
  IN  [b EXCEPT !.copyState = IF written THEN "copied" ELSE "failed",
                !.timers = kept \cup {[id |-> newTimerId(kept), ms |-> COPY_RESET_MS]},
                !.copyResetTimer = Some(newTimerId(kept)),
                !.writes = @ - 1,
                !.sinceCopy = 0]

\* disconnectedCallback()
disconnectedCallback(b) ==
  [b EXCEPT !.connected = FALSE,
            !.timers = {t \in @ : b.copyResetTimer = None \/ t.id # b.copyResetTimer[1]},
            !.copyResetTimer = None]

\* A mode button of the top bar, 'Start Wizard' and 'Open Explorer' of the
\* landing page, 'Open in Explorer' of a wizard field.
ModeButtonClick ==
  /\ builder.connected
  /\ \E mode \in Modes : builder' = navigateMode(builder, mode)
  /\ UNCHANGED subagentVars

\* A step of the wizard's progress bar.
WizardStepClick ==
  /\ builder.connected
  /\ builder.mode = "wizard"
  /\ \E index \in 0..(WIZARD_STEPS_LENGTH - 1) : builder' = setWizardStep(builder, index)
  /\ UNCHANGED subagentVars

\* Back, disabled at the first step.
WizardBack ==
  /\ builder.connected
  /\ builder.mode = "wizard"
  /\ builder.wizardStepIndex # 0
  /\ builder' = setWizardStep(builder, builder.wizardStepIndex - 1)
  /\ UNCHANGED subagentVars

\* Continue, which is Finish at the last step.
WizardContinue ==
  /\ builder.connected
  /\ builder.mode = "wizard"
  /\ builder' =
       IF builder.wizardStepIndex >= WIZARD_STEPS_LENGTH - 1
         THEN navigateMode(builder, "explorer")
         ELSE setWizardStep(builder, builder.wizardStepIndex + 1)
  /\ UNCHANGED subagentVars

\* The user edits the address or goes back or forward in the history.
LocationChanges ==
  /\ \E hash \in Hashes \ {builder.hash} :
       builder' = [builder EXCEPT !.hash = hash, !.hashchange = TRUE]
  /\ UNCHANGED subagentVars

\* The queued hashchange event is delivered to the listener, if one is
\* registered.
HashChangeEvent ==
  /\ builder.hashchange
  /\ builder' =
       [(IF builder.connected THEN handleHashChange(builder) ELSE builder)
          EXCEPT !.hashchange = FALSE]
  /\ UNCHANGED subagentVars

\* Copy of the preview panel: copyPreview(text) up to its await.
CopyClick ==
  /\ builder.connected
  /\ builder.mode # "landing"
  /\ builder.writes < MaxWrites
  /\ builder' = [builder EXCEPT !.writes = @ + 1]
  /\ UNCHANGED subagentVars

\* A clipboard write resolves or rejects and copyPreview goes on.
ClipboardSettles ==
  /\ builder.writes > 0
  /\ \E written \in BOOLEAN : builder' = copyPreviewSettled(builder, written)
  /\ UNCHANGED subagentVars

\* A timer is due: the callback copyPreview gave to setTimeout runs.
TimerFires ==
  /\ \E t \in builder.timers :
       /\ t.ms = 0
       /\ builder' = [builder EXCEPT !.timers = @ \ {t},
                                     !.copyState = "idle",
                                     !.copyResetTimer = None]
  /\ UNCHANGED subagentVars

\* Half a second passes; a timer that is due fires first.
Tick ==
  /\ \A t \in builder.timers : t.ms > 0
  /\ builder.timers # {} \/ builder.sinceCopy \in 0..COPY_RESET_MS
  /\ builder' =
       [builder EXCEPT !.timers = {[t EXCEPT !.ms = @ - 500] : t \in @},
                       !.sinceCopy = IF @ \in 0..COPY_RESET_MS THEN @ + 500 ELSE @]
  /\ UNCHANGED subagentVars

\* The element is taken out of the document.
Disconnect ==
  /\ builder.connected
  /\ builder' = disconnectedCallback(builder)
  /\ UNCHANGED subagentVars

\* The page is opened at any hash, without a stored draft.
InitBuilder ==
  /\ builder \in {connectedCallback(Constructed(hash, resetDraft)) : hash \in Hashes}
  /\ registry = <<>>
  /\ now = NowMs
  /\ store = EmptyStore
  /\ inv = [i \in Invs |-> IdleInvocation]
  /\ steerRestart = {}
  /\ phase = "start"
  /\ listing = <<>>
  /\ token = <<>>
  /\ resolution = NoResolution

NextBuilder ==
  \/ ModeButtonClick
  \/ WizardStepClick
  \/ WizardBack
  \/ WizardContinue
  \/ LocationChanges
  \/ HashChangeEvent
  \/ CopyClick
  \/ ClipboardSettles
  \/ TimerFires
  \/ Tick
  \/ Disconnect

SpecBuilder == InitBuilder /\ [][NextBuilder]_vars

(***************************************************************************)
(* The field editors of the builder.                                       *)
(***************************************************************************)
\* The texts typed into an input or pasted into the JSON editor.
RawInputs ==
  {<<" ">>, <<"x">>, <<"7">>, <<"1", ".", "5">>, <<" ", "7">>, <<"7", "x">>,
   <<"[", "]">>, <<"[", "7", "]">>, <<"{">>}

\* An input event of a field editor: the control, the path of its field,
\* the text, and whether the path had a field error when it came.
Input(b, control, path, raw) ==
  Some([control |-> control, path |-> path, raw |-> raw,
        hadError |-> path \in Paths /\ b.fieldErrors[path] # None])

\* The input handler of renderScalarControl with the callbacks of
\* renderField.
scalarInput(b, field, raw) ==
  IF trim(raw) = <<>> THEN clearField(b, field.path)
  ELSE IF parseScalar(field.kind, raw).ok
    THEN setField(b, field.path, parseScalar(field.kind, raw).value[1])
  ELSE setFieldError(b, field.path, parseScalar(field.kind, raw).message)

\* The change handler of renderJsonControl with the callbacks of
\* renderField.
jsonChange(b, field, text) ==
  LET raw == trim(text)
  IN  IF raw = <<>> THEN setField(b, field.path, Value("array", 0, FALSE, <<>>, <<>>))
      ELSE IF JSONparse(raw).ok THEN setField(b, field.path, JSONparse(raw).value[1])
      ELSE setFieldError(b, field.path, JSONparse(raw).message)

\* Text is typed into the input of a number or integer field.
ScalarInput ==
  /\ builder.connected
  /\ \E field \in {f \in Fields : f.kind \in {"number", "integer"}}, raw \in RawInputs :
       builder' = [scalarInput(builder, field, raw) EXCEPT
                     !.input = Input(builder, "scalar", field.path, raw)]
  /\ UNCHANGED subagentVars

\* The JSON editor of an array field loses the focus with changed text.
JsonChange ==
  /\ builder.connected
  /\ \E field \in {f \in Fields : f.kind = "array"}, raw \in RawInputs :
       builder' = [jsonChange(builder, field, raw) EXCEPT
                     !.input = Input(builder, "json", field.path, raw)]
  /\ UNCHANGED subagentVars

\* Clear of a field.
ClearClick ==
  /\ builder.connected
  /\ \E field \in Fields :
       builder' = [clearField(builder, field.path) EXCEPT
                     !.input = Input(builder, "clear", field.path, <<>>)]
  /\ UNCHANGED subagentVars

\* Reset all of the preview panel.
ResetAllClick ==
  /\ builder.connected
  /\ builder' = [resetAllFields(builder) EXCEPT !.input = Input(builder, "reset", "", <<>>)]
  /\ UNCHANGED subagentVars

\* The explorer is opened, with or without a draft stored by an earlier
\* visit.
InitDraft ==
  /\ builder \in
       {connectedCallback(Constructed("#/explorer", persisted)) :
          persisted \in
            {resetDraft,
             setFieldValue(resetDraft, "port", Value("number", 70, FALSE, <<>>, <<>>))}}
  /\ registry = <<>>
  /\ now = NowMs
  /\ store = EmptyStore
  /\ inv = [i \in Invs |-> IdleInvocation]
  /\ steerRestart = {}
  /\ phase = "start"
  /\ listing = <<>>
  /\ token = <<>>
  /\ resolution = NoResolution

NextDraft == ScalarInput \/ JsonChange \/ ClearClick \/ ResetAllClick

SpecDraft == InitDraft /\ [][NextDraft]_vars

(***************************************************************************)
(* Properties of the config builder.                                       *)
(***************************************************************************)
\* C36: wizardStepIndex is always one of 0 .. WIZARD_STEPS.length - 1, and
\* setWizardStep leaves it there for any index it is given, one below the
\* first step (Back) and one above the last (Continue) included.
C36_WizardStepInRange ==
  /\ builder.wizardStepIndex \in 0..(WIZARD_STEPS_LENGTH - 1)
  /\ \A index \in -1..WIZARD_STEPS_LENGTH :
       setWizardStep(builder, index).wizardStepIndex \in 0..(WIZARD_STEPS_LENGTH - 1)

\* C36 witness: the wizard is at its last step, the address having been
\* changed on the way.
C36_Witness ==
  /\ builder.mode = "wizard"
  /\ builder.wizardStepIndex = WIZARD_STEPS_LENGTH - 1
  /\ builder.hash = "#/wizard"
  /\ builder.connected

\* C39: in every state whose mode is not 'wizard' the wizard step index is
\* 0.
C39_StepResetOutsideWizard ==
  builder.mode # "wizard" => builder.wizardStepIndex = 0

\* C40: at most one copy-reset timer is pending; more than 1.5 s after the
\* last clipboard write settled copyState is 'idle'; once the element is
\* disconnected no copy-reset timer is pending.
C40_OneCopyResetTimer ==
  /\ Cardinality(builder.timers) <= 1
  /\ builder.sinceCopy > COPY_RESET_MS => builder.copyState = "idle"
  /\ ~builder.connected => builder.timers = {}

\* The input is text that does not parse: text that is no number in a
\* number or integer field, text that is no JSON in the JSON editor.
FailsToParse(input) ==
  /\ trim(input.raw) # <<>>
  /\ \/ input.control = "scalar" /\ NumberOf(input.raw) = None
     \/ input.control = "json" /\ ~JSONparse(trim(input.raw)).ok

\* C37: the validation is that of the config and the stored draft is the
\* config, in every state; Clear leaves the config without the value of
\* its path and 'Reset all' leaves the empty draft.
C37_DraftCopiesAgree ==
  /\ [](/\ builder.validation = validateConfigDraft(builder.config)
        /\ builder.persisted = builder.config)
  /\ [][/\ builder'.input # None /\ builder'.input[1].control = "clear" =>
             builder'.config = clearFieldValue(builder.config, builder'.input[1].path)
        /\ builder'.input # None /\ builder'.input[1].control = "reset" =>
             builder'.config = resetDraft]_vars

\* C37 witness: the JSON editor of the array field was given a number: the
\* config holds it, the validation reports the path and the stored draft
\* is the config.
C37_Witness ==
  /\ builder.input # None
  /\ builder.input[1].control = "json"
  /\ builder.config["hooks"] # None
  /\ builder.config["hooks"][1].type = "number"
  /\ builder.validation.issues = {"hooks"}
  /\ builder.persisted = builder.config

\* C38: an input that fails to parse leaves config, validation and stored
\* draft as they were and leaves a field error at its path; a set or
\* clear that goes through leaves no field error at its path; parseScalar
\* takes exactly 'true' and 'false' for a boolean.
C38_ParseFailureKeepsDraft ==
  /\ [][/\ builder'.input # None /\ FailsToParse(builder'.input[1]) =>
             /\ builder'.config = builder.config
             /\ builder'.validation = builder.validation
             /\ builder'.persisted = builder.persisted
             /\ builder'.fieldErrors[builder'.input[1].path] # None
        /\ /\ builder'.input # None
           /\ builder'.input[1].control \in {"scalar", "json", "clear"}
           /\ ~FailsToParse(builder'.input[1])
           => builder'.fieldErrors[builder'.input[1].path] = None]_vars
  /\ [](\A raw \in RawInputs \cup {<<"t", "r", "u", "e">>, <<"f", "a", "l", "s", "e">>} :
          parseScalar("boolean", raw).ok <=>
            raw \in {<<"t", "r", "u", "e">>, <<"f", "a", "l", "s", "e">>})

\* C38 witness: a number typed into a field that had a field error was
\* set, and the field error is gone, while another field keeps its own.
C38_Witness ==
  /\ builder.input # None
  /\ builder.input[1].control = "scalar"
  /\ builder.input[1].hadError
  /\ ~FailsToParse(builder.input[1])
  /\ trim(builder.input[1].raw) # <<>>
  /\ builder.config[builder.input[1].path] # None
  /\ builder.fieldErrors[builder.input[1].path] = None
  /\ builder.fieldErrors["hooks"] = Some("Invalid JSON value.")

====
